---- MODULE Spec2Model ----
(***************************************************************************)
(* HRMS backend: the employee registry (app/services/employee_service.py)  *)
(* and the attendance ledger (app/services/attendance_service.py) over one *)
(* PostgreSQL store at READ COMMITTED (app/database.py).                   *)
(*                                                                         *)
(* Every request runs in a session of its own.  A service call is a series *)
(* of SQL statements; each statement sees the rows committed at the moment *)
(* it runs, and the rows a session writes become visible to the others at  *)
(* its COMMIT, all at once.  One action of the model is one statement (or  *)
(* the flush and COMMIT of db.commit()), so that the statements of         *)
(* concurrent requests interleave as they can in the store.                *)
(*                                                                         *)
(* Strings are sequences of one-character strings, so that strip() and     *)
(* lower() are computed, not assumed.                                      *)
(***************************************************************************)
EXTENDS Integers, Sequences, FiniteSets, TLC

-----------------------------------------------------------------------------
(* Bounds of the model *)

\* concurrent sessions (requests in flight at the same time)
NumSessions == 2
\* service calls begun in one behaviour that starts from the empty store
MaxOps == 3
\* service calls begun in one behaviour that starts from the seeded store
SeededOps == 2
\* the clock runs over the days 1..MaxDay
MaxDay == 2
\* calls per behaviour in the races that take three callers
RaceOps == 3
\* attendance records of one employee in the ledgers summarised
MaxRecords == 10

Sessions == 1..NumSessions
Days == 1..MaxDay

-----------------------------------------------------------------------------
(* Strings *)

\* Python's None where a string is expected
None == <<"None">>

Min(S) == CHOOSE x \in S : \A y \in S : x <= y
Max(S) == CHOOSE x \in S : \A y \in S : x >= y

UpperCase == <<"A", "B", "D", "E", "J", "L", "N", "P", "R", "S", "T", "X">>
LowerCase == <<"a", "b", "d", "e", "j", "l", "n", "p", "r", "s", "t", "x">>

LowerChar(c) ==
    IF \E i \in DOMAIN UpperCase : UpperCase[i] = c
    THEN LowerCase[CHOOSE i \in DOMAIN UpperCase : UpperCase[i] = c]
    ELSE c

UpperChar(c) ==
    IF \E i \in DOMAIN LowerCase : LowerCase[i] = c
    THEN UpperCase[CHOOSE i \in DOMAIN LowerCase : LowerCase[i] = c]
    ELSE c

\* str.lower()
Lower(s) == [i \in 1..Len(s) |-> LowerChar(s[i])]

\* str.strip(): the whitespace at both ends goes, the inner stays
Strip(s) ==
    LET keep == {i \in 1..Len(s) : s[i] # " "}
    IN  IF keep = {} THEN <<>> ELSE SubSeq(s, Min(keep), Max(keep))

Letters == {UpperCase[i] : i \in DOMAIN UpperCase}
           \cup {LowerCase[i] : i \in DOMAIN LowerCase} \cup {"i", "o"}
Digits == {"1", "2"}
LocalChars == Letters \cup Digits \cup {".", "_", "%", "+", "-"}
DomainChars == Letters \cup Digits \cup {".", "-"}

\* re.match(r"^[a-zA-Z0-9._%+-]+@[a-zA-Z0-9.-]+\.[a-zA-Z]{2,}$", s)
EmailPatternMatch(s) ==
    \E at \in 2..Len(s) : \E dot \in (at + 2)..(Len(s) - 2) :
        /\ s[at] = "@"
        /\ s[dot] = "."
        /\ \A i \in 1..(at - 1) : s[i] \in LocalChars
        /\ \A i \in (at + 1)..(dot - 1) : s[i] \in DomainChars
        /\ \A i \in (dot + 1)..Len(s) : s[i] \in Letters

-----------------------------------------------------------------------------
(* Request schemas (pydantic): the field constraints, then the validators *)

EmployeeIdMinLen == 1
EmployeeIdMaxLen == 50
FullNameMinLen == 2
FullNameMaxLen == 100
EmailMaxLen == 255
DepartmentMinLen == 1
DepartmentMaxLen == 100

\* EmployeeBase.validate_employee_id
validate_employee_id(value) ==
    LET v == Strip(value)
    IN  [ok |-> v # <<>>, value |-> v]

\* EmployeeBase.validate_full_name
validate_full_name(value) ==
    LET v == Strip(value)
    IN  [ok |-> v # <<>> /\ Len(v) >= FullNameMinLen, value |-> v]

\* EmployeeBase.validate_email
validate_email(value) ==
    LET v == Lower(Strip(value))
    IN  [ok |-> v # <<>> /\ EmailPatternMatch(v), value |-> v]

\* EmployeeBase.validate_department
validate_department(value) ==
    LET v == Strip(value)
    IN  [ok |-> v # <<>>, value |-> v]

\* EmployeeCreate(**payload): the validated object, or a validation error
EmployeeCreate(payload) ==
    LET id == validate_employee_id(payload.employee_id)
        nm == validate_full_name(payload.full_name)
        em == validate_email(payload.email)
        dp == validate_department(payload.department)
    IN  [ok |-> /\ Len(payload.employee_id) \in EmployeeIdMinLen..EmployeeIdMaxLen
                /\ Len(payload.full_name) \in FullNameMinLen..FullNameMaxLen
                /\ Len(payload.email) <= EmailMaxLen
                /\ Len(payload.department) \in DepartmentMinLen..DepartmentMaxLen
                /\ id.ok /\ nm.ok /\ em.ok /\ dp.ok,
         employee_id |-> id.value,
         full_name |-> nm.value,
         email |-> em.value,
         department |-> dp.value]

\* EmployeeUpdate.validate_email: None stays None, a blank string becomes None
update_validate_email(value) ==
    IF value = None THEN [ok |-> TRUE, value |-> None]
    ELSE LET v == Lower(Strip(value))
         IN  IF v = <<>> THEN [ok |-> TRUE, value |-> None]
             ELSE [ok |-> EmailPatternMatch(v), value |-> v]

\* EmployeeUpdate(**payload): full_name and department have length
\* constraints only, no validator of their own
EmployeeUpdate(payload) ==
    LET em == update_validate_email(payload.email)
    IN  [ok |-> /\ \/ payload.full_name = None
                   \/ Len(payload.full_name) \in FullNameMinLen..FullNameMaxLen
                /\ \/ payload.email = None
                   \/ Len(payload.email) <= EmailMaxLen
                /\ \/ payload.department = None
                   \/ Len(payload.department) \in DepartmentMinLen..DepartmentMaxLen
                /\ em.ok,
         full_name |-> payload.full_name,
         email |-> em.value,
         department |-> payload.department]

\* str.title() of a single word: the first letter upper, the rest lower
Title(s) ==
    [i \in 1..Len(s) |-> IF i = 1 THEN UpperChar(s[i]) ELSE LowerChar(s[i])]

\* a validator that lets every status through
validate_status_Any(value) ==
    LET value_str == Title(Strip(value))
    IN  [ok |-> TRUE,
         value |-> IF value_str = <<"P", "r", "e", "s", "e", "n", "t">> THEN "Present"
                   ELSE IF value_str = <<"A", "b", "s", "e", "n", "t">> THEN "Absent"
                   ELSE "Other"]

PresentStr == <<"P", "r", "e", "s", "e", "n", "t">>
AbsentStr == <<"A", "b", "s", "e", "n", "t">>

\* AttendanceBase.validate_status, then the coercion into AttendanceStatus
validate_status(value) ==
    LET value_str == Title(Strip(value))
    IN  [ok |-> value_str \in {PresentStr, AbsentStr},
         value |-> IF value_str = PresentStr THEN "Present" ELSE "Absent"]

\* AttendanceBase.validate_date_not_future
validate_date_not_future(value, now) == ~(value > now)

\* AttendanceCreate(**payload) built on day `now`
AttendanceCreate(payload, now) ==
    LET st == validate_status(payload.status)
    IN  [ok |-> /\ payload.employee_id > 0
                /\ validate_date_not_future(payload.date, now)
                /\ st.ok,
         employee_id |-> payload.employee_id,
         attendance_date |-> payload.date,
         status |-> st.value]

-----------------------------------------------------------------------------
(* The request payloads the callers send *)

E1 == <<"E", "1">>
E2 == <<"E", "2">>
Jo == <<"J", "o">>
Dept == <<"D">>
MailA == <<"a", "@", "x", ".", "i", "o">>
MailB == <<"b", "@", "x", ".", "i", "o">>

CreatePayloads ==
    {[employee_id |-> c, full_name |-> Jo, email |-> e, department |-> Dept] :
        c \in {E1, E2}, e \in {MailA, MailB}}
    \cup
    {\* every field in a form the validators normalise
     [employee_id |-> <<" ", "E", "1">>, full_name |-> <<" ", "J", "o">>,
      email |-> <<" ", "A", "@", "X", ".", "i", "o">>, department |-> <<"D", " ">>],
     \* a blank employee_id, a blank name, a malformed email, a blank department
     [employee_id |-> <<" ">>, full_name |-> Jo, email |-> MailA, department |-> Dept],
     [employee_id |-> E1, full_name |-> <<" ", " ">>, email |-> MailA, department |-> Dept],
     [employee_id |-> E1, full_name |-> Jo, email |-> <<"a", "@", "x">>, department |-> Dept],
     [employee_id |-> E1, full_name |-> Jo, email |-> MailA, department |-> <<" ">>]}

UpdatePayloads ==
    {\* an email, as it is stored and in a form the validator normalises
     [full_name |-> None, email |-> MailA, department |-> None],
     [full_name |-> None, email |-> <<" ", "B", "@", "X", ".", "i", "o">>,
      department |-> None],
     \* a name alone, a department alone: both of blanks only
     [full_name |-> <<" ", " ">>, email |-> None, department |-> None],
     [full_name |-> None, email |-> None, department |-> <<" ">>],
     \* nothing supplied; a blank email; a malformed email; a one-letter name
     [full_name |-> None, email |-> None, department |-> None],
     [full_name |-> None, email |-> <<" ">>, department |-> None],
     [full_name |-> None, email |-> <<"a", "@", "x">>, department |-> None],
     [full_name |-> <<"J">>, email |-> None, department |-> None]}

\* the bodies the four writers are raced on: per operation one that can
\* succeed, one that meets a committed row, one the schema rejects
WritesCreatePayloads ==
    {[employee_id |-> E1, full_name |-> Jo, email |-> MailA, department |-> Dept],
     [employee_id |-> E2, full_name |-> Jo, email |-> MailB, department |-> Dept],
     [employee_id |-> <<" ">>, full_name |-> Jo, email |-> MailA, department |-> Dept]}

WritesUpdatePayloads ==
    {[full_name |-> None, email |-> <<" ", "B", "@", "X", ".", "i", "o">>,
      department |-> None],
     [full_name |-> <<" ", " ">>, email |-> None, department |-> None],
     [full_name |-> None, email |-> <<"a", "@", "x">>, department |-> None]}

-----------------------------------------------------------------------------
(* State *)

VARIABLES
    employees,   \* the committed rows of table employees
    attendance,  \* the committed rows of table attendance
    emp_seq,     \* last value of the sequence behind employees.id
    att_seq,     \* last value of the sequence behind attendance.id
    today,       \* date.today()
    pc,          \* per session: the statement its service call runs next
    req,         \* per session: the validated request of its current call
    loaded,      \* per session: the rows its ORM session holds
    result,      \* per session: how its last call ended
    hist,        \* per session: what the claims need to know of its call
    ops,         \* service calls begun so far
    budget,      \* service calls the behaviour admits
    deleted      \* ids of the employees whose deletion has committed

vars == <<employees, attendance, emp_seq, att_seq, today, pc, req, loaded,
          result, hist, ops, budget, deleted>>

NoRow == [id |-> 0, employee_id |-> None, full_name |-> None, email |-> None,
          department |-> None, created_at |-> 0, updated_at |-> 0]

\* datetime.utcnow() at a flush: the clock of the timestamps, which has
\* advanced with every call begun
utcnow == ops

NoReq == [op |-> "none", id |-> 0, employee_id |-> None, full_name |-> None,
          email |-> None, department |-> None, date |-> 0, status |-> "none",
          skip |-> 0, limit |-> 0, start_date |-> 0, end_date |-> 0,
          employee |-> {}, date_filter |-> {}]

NoLoaded == [employee |-> NoRow, children |-> {}, row |-> 0, locks |-> {}]

\* during: the sessions whose present call was in flight, its COMMIT still
\* ahead, when this call began; pre: what held of the store at its first
\* statement; wrote: the id of the row its COMMIT wrote; would: the field the
\* pre-checks name on the rows that made its COMMIT fail; seen: of a read,
\* the number of records its employee had at its first statement
NoHist == [during |-> {}, pre |-> FALSE, wrote |-> 0, would |-> "none",
           seen |-> 0]

\* the histories once session s begins a call
Begun(s, pre) ==
    [t \in Sessions |->
        IF t = s
        THEN [NoHist EXCEPT !.during = {r \in Sessions : /\ pc[r] # "idle"
                                                        /\ hist[r].wrote = 0},
                            !.pre = pre]
        ELSE [hist[t] EXCEPT !.during = @ \ {s}]]

\* how a call ends: the value returned, or the exception raised
Outcome(kind, field, value, id, n, present) ==
    [kind |-> kind, field |-> field, value |-> value, id |-> id, n |-> n,
     present |-> present, absent |-> 0, percentage |-> 0, rows |-> <<>>]

NoResult == Outcome("none", "none", None, 0, 0, 0)
Returned(id, n, present) == Outcome("ok", "none", None, id, n, present)

\* pydantic's ValidationError, raised before the service is entered
ValidationError == Outcome("ValidationError", "none", None, 0, 0, 0)

\* EmployeeNotFoundException(employee_id=id)
EmployeeNotFoundException(id) ==
    Outcome("EmployeeNotFoundException", "none", None, id, 0, 0)

\* DuplicateEmployeeException.__init__ : details = {field, value}
DuplicateEmployeeException(field, value) ==
    Outcome("DuplicateEmployeeException", field, value, 0, 0, 0)

\* the default of DuplicateEmployeeException's parameter `field`
DefaultField == "employee_id"

\* DuplicateAttendanceException(employee_id=id, date=d)
DuplicateAttendanceException(id, d) ==
    Outcome("DuplicateAttendanceException", "none", None, id, d, 0)

\* InvalidDateException(date=d)
InvalidDateException(d) == Outcome("InvalidDateException", "none", None, 0, d, 0)

\* exceptions of SQLAlchemy no service catches: they leave the service as
\* they are, get_db rolls the session back, and the caller gets a 500
StaleDataError(id) == Outcome("StaleDataError", "none", None, id, 0, 0)
InvalidRequestError(id) == Outcome("InvalidRequestError", "none", None, id, 0, 0)

\* SQLAlchemy's OperationalError: the connection is refused or lost, or the
\* statement times out.  No service catches it either.
OperationalError(id) == Outcome("OperationalError", "none", None, id, 0, 0)

\* the status of the response an exception is answered with: the
\* status_code of an HRMSException, 422 for a body that does not validate,
\* 500 from the handler of every other exception (0: no handler runs)
status_code(r) ==
    CASE r.kind \in {"ok", "none"} -> 0
      [] r.kind = "EmployeeNotFoundException" -> 404
      [] r.kind \in {"DuplicateEmployeeException",
                     "DuplicateAttendanceException"} -> 409
      [] r.kind = "InvalidDateException" -> 400
      [] r.kind = "ValidationError" -> 422
      [] OTHER -> 500

\* every session idle, nothing deleted yet
Idle ==
    /\ pc = [s \in Sessions |-> "idle"]
    /\ req = [s \in Sessions |-> NoReq]
    /\ loaded = [s \in Sessions |-> NoLoaded]
    /\ result = [s \in Sessions |-> NoResult]
    /\ hist = [s \in Sessions |-> NoHist]
    /\ ops = 0
    /\ deleted = {}

\* the store as init_db leaves it: both tables empty
Init ==
    /\ Idle
    /\ employees = {}
    /\ attendance = {}
    /\ emp_seq = 0
    /\ att_seq = 0
    /\ today = 1
    /\ budget = MaxOps

\* the store after one create_employee and one mark_attendance on the first
\* day, seen on the last day of the clock: one employee with one record
SeedEmployee ==
    [id |-> 1, employee_id |-> <<"E", "1">>, full_name |-> <<"J", "o">>,
     email |-> <<"a", "@", "x", ".", "i", "o">>, department |-> <<"D">>,
     created_at |-> 0, updated_at |-> 0]

SeedAttendance == [id |-> 1, employee_id |-> 1, date |-> 1, status |-> "Present"]

InitSeeded ==
    /\ Idle
    /\ employees = {SeedEmployee}
    /\ attendance = {SeedAttendance}
    /\ emp_seq = 1
    /\ att_seq = 1
    /\ today = MaxDay
    /\ budget = SeededOps

-----------------------------------------------------------------------------
(* The store: queries and constraints *)

\* a query for an employee that leaves the filter on id out
EmployeeById_Unfiltered(emps, id) ==
    IF emps = {} THEN NoRow ELSE CHOOSE e \in emps : TRUE

\* db.query(Employee).filter(Employee.id == id).first()
EmployeeById(emps, id) ==
    IF \E e \in emps : e.id = id
    THEN CHOOSE e \in emps : e.id = id
    ELSE NoRow

\* a lookup without the filter on employee_id: the first row of the table
get_employee_by_employee_id_Unfiltered(emps, employee_id) ==
    IF emps # {} THEN CHOOSE e \in emps : TRUE ELSE NoRow

\* EmployeeService.get_employee_by_employee_id
get_employee_by_employee_id(emps, employee_id) ==
    IF \E e \in emps : e.employee_id = employee_id
    THEN CHOOSE e \in emps : e.employee_id = employee_id
    ELSE NoRow

\* a lookup by email that finds nothing
get_employee_by_email_Never(emps, email) == NoRow

\* EmployeeService.get_employee_by_email
get_employee_by_email(emps, email) ==
    IF \E e \in emps : e.email = Lower(email)
    THEN CHOOSE e \in emps : e.email = Lower(email)
    ELSE NoRow

\* a duplicate check that finds nothing
check_duplicate_attendance_Skipped(att, employee_id, attendance_date) == FALSE

\* AttendanceService.check_duplicate_attendance: TRUE iff a row is found
check_duplicate_attendance(att, employee_id, attendance_date) ==
    \E a \in att : a.employee_id = employee_id /\ a.date = attendance_date

\* the rows of attendance that reference employee id
AttendanceOf(att, id) == {a \in att : a.employee_id = id}

\* a table employees declared without unique=True on either column
EmployeeUniqueViolation_Undeclared(emps, row) == FALSE

\* employees.employee_id UNIQUE, employees.email UNIQUE, against the other rows
EmployeeUniqueViolation(emps, row) ==
    \E e \in emps :
        /\ e.id # row.id
        /\ \/ e.employee_id = row.employee_id
           \/ e.email = row.email

\* a table attendance declared without uq_employee_date
AttendanceUniqueViolation_Undeclared(att, row) == FALSE

\* uq_employee_date: UNIQUE (employee_id, date)
AttendanceUniqueViolation(att, row) ==
    \E a \in att : a.employee_id = row.employee_id /\ a.date = row.date

\* a column attendance.employee_id declared without its ForeignKey
ForeignKeyViolation_Undeclared(emps, row) == FALSE

\* attendance.employee_id REFERENCES employees.id
ForeignKeyViolation(emps, row) ==
    ~ \E e \in emps : e.id = row.employee_id

\* ck_attendance_status
StatusCheckViolation(row) == row.status \notin {"Present", "Absent"}

\* a foreign key declared without ondelete="CASCADE" and not enforced
OnDeleteCascade_NoAction(att, id) == att

\* ON DELETE CASCADE of attendance.employee_id: what is left of attendance
\* once employee id is deleted
OnDeleteCascade(att, id) == {a \in att : a.employee_id # id}

-----------------------------------------------------------------------------
(* Sessions *)

\* a request arrives at an idle session
CanBegin(s) == pc[s] = "idle" /\ ops < budget

\* the call of session s ends with outcome r; its ORM session is closed
End(s, r) ==
    /\ pc' = [pc EXCEPT ![s] = "idle"]
    /\ result' = [result EXCEPT ![s] = r]
    /\ loaded' = [loaded EXCEPT ![s] = NoLoaded]

\* the request body r does not validate: the service is never entered
RejectedBody(s, r) ==
    /\ End(s, ValidationError)
    /\ req' = [req EXCEPT ![s] = r]
    /\ hist' = Begun(s, FALSE)
    /\ ops' = ops + 1

\* a body of operation op does not validate
Rejected(s, op) == RejectedBody(s, [NoReq EXCEPT !.op = op])

\* the ids a caller may name: those of the employees there are, those of the
\* employees deleted, and the id the next INSERT will take
TargetIds == {e.id : e \in employees} \cup deleted \cup {emp_seq + 1}

-----------------------------------------------------------------------------
(* EmployeeService.create_employee *)

\* what the two pre-checks of create_employee raise on the rows emps
CreatePrecheck(emps, data) ==
    IF get_employee_by_employee_id(emps, data.employee_id) # NoRow
    THEN DuplicateEmployeeException("employee_id", data.employee_id)
    ELSE IF get_employee_by_email(emps, data.email) # NoRow
         THEN DuplicateEmployeeException("email", data.email)
         ELSE NoResult

\* an INSERT the store does not check
InsertEmployee_Unchecked(emps, row) == [error |-> "none", rows |-> emps \cup {row}]

\* an INSERT whose row stays although the statement has failed
InsertEmployee_NoRollback(emps, row) ==
    [error |-> IF \E e \in emps : e.employee_id = row.employee_id \/ e.email = row.email
               THEN "IntegrityError" ELSE "none",
     rows |-> emps \cup {row}]

\* the INSERT of db.add + db.commit: the row is written, or the statement
\* fails on a unique constraint and writes nothing
InsertEmployee(emps, row) ==
    IF EmployeeUniqueViolation(emps, row)
    THEN [error |-> "IntegrityError", rows |-> emps]
    ELSE [error |-> "none", rows |-> emps \cup {row}]

\* the request is validated and the service runs its first query: the
\* duplicate check on employee_id
CreateCheckEmployeeId(s, payload) ==
    /\ CanBegin(s)
    /\ LET data == EmployeeCreate(payload)
       IN  IF ~data.ok
           THEN /\ Rejected(s, "create")
           ELSE /\ ops' = ops + 1
                /\ req' = [req EXCEPT ![s] =
                             [NoReq EXCEPT !.op = "create",
                                           !.employee_id = data.employee_id,
                                           !.full_name = data.full_name,
                                           !.email = data.email,
                                           !.department = data.department]]
                /\ hist' = Begun(s, CreatePrecheck(employees, data) = NoResult)
                /\ IF get_employee_by_employee_id(employees, data.employee_id) # NoRow
                   THEN End(s, DuplicateEmployeeException("employee_id", data.employee_id))
                   ELSE /\ pc' = [pc EXCEPT ![s] = "create_check_email"]
                        /\ UNCHANGED <<result, loaded>>
    /\ UNCHANGED <<employees, attendance, emp_seq, att_seq, today, budget, deleted>>

\* the duplicate check on email
CreateCheckEmail(s) ==
    /\ pc[s] = "create_check_email"
    /\ IF get_employee_by_email(employees, req[s].email) # NoRow
       THEN End(s, DuplicateEmployeeException("email", req[s].email))
       ELSE /\ pc' = [pc EXCEPT ![s] = "create_commit"]
            /\ UNCHANGED <<result, loaded>>
    /\ UNCHANGED <<employees, attendance, emp_seq, att_seq, today, budget, req, hist,
                   ops, deleted>>

\* an id taken as one more than the greatest id of the rows left
nextval_MaxPlusOne(emps, seq) ==
    IF emps = {} THEN 1
    ELSE (CHOOSE e \in emps : \A o \in emps : o.id <= e.id).id + 1

\* the default of Employee.id: nextval of the sequence of the SERIAL column,
\* which never gives an id again, whatever rows emps are left
nextval(emps, seq) == seq + 1

\* db.add, db.commit: the INSERT takes the next id of the sequence (a failed
\* INSERT has taken one too) and commits, or raises IntegrityError, which
\* the service rolls back and raises as DuplicateEmployeeException(message=..)
CreateCommit(s) ==
    /\ pc[s] = "create_commit"
    /\ LET db_employee == [id |-> nextval(employees, emp_seq),
                           employee_id |-> req[s].employee_id,
                           full_name |-> req[s].full_name,
                           email |-> Lower(req[s].email),
                           department |-> req[s].department,
                           created_at |-> utcnow,
                           updated_at |-> utcnow]
           ins == InsertEmployee(employees, db_employee)
       IN  /\ emp_seq' = emp_seq + 1
           /\ employees' = ins.rows
           /\ IF ins.error = "none"
              THEN /\ pc' = [pc EXCEPT ![s] = "create_refresh"]
                   /\ loaded' = [loaded EXCEPT ![s].employee = db_employee]
                   /\ hist' = [hist EXCEPT ![s].wrote = db_employee.id]
                   /\ UNCHANGED result
              ELSE /\ End(s, DuplicateEmployeeException(DefaultField, None))
                   /\ hist' = [hist EXCEPT ![s].would =
                                 CreatePrecheck(employees, req[s]).field]
    /\ UNCHANGED <<attendance, att_seq, today, budget, req, ops, deleted>>

\* db.refresh(db_employee): the row is read back, and is gone if a delete
\* has committed since
CreateRefresh(s) ==
    /\ pc[s] = "create_refresh"
    /\ LET row == EmployeeById(employees, loaded[s].employee.id)
       IN  IF row = NoRow
           THEN End(s, InvalidRequestError(loaded[s].employee.id))
           ELSE End(s, Returned(row.id, 0, 0))
    /\ UNCHANGED <<employees, attendance, emp_seq, att_seq, today, budget, req, hist,
                   ops, deleted>>

-----------------------------------------------------------------------------
(* EmployeeService.update_employee *)

\* the columns the loop over update_data sets to a value other than the one
\* the session loaded: the only ones the UPDATE of the flush writes
ChangedColumns(data, was) ==
    {c \in {"full_name", "email", "department"} : data[c] # None /\ data[c] # was[c]}

\* an UPDATE that writes every column of the schema, the ones left None too
UpdatedRow_AllColumns(row, data, cols) ==
    [c \in DOMAIN row |-> IF c \in {"full_name", "email", "department"} THEN data[c]
                          ELSE IF c = "updated_at" THEN utcnow
                          ELSE row[c]]

\* the row an UPDATE of the columns cols leaves in place of row: the
\* statement sets updated_at too, by the column's onupdate
UpdatedRow(row, data, cols) ==
    [c \in DOMAIN row |-> IF c \in cols THEN data[c]
                          ELSE IF c = "updated_at" THEN utcnow
                          ELSE row[c]]

\* the flush of update_employee's db.commit() on the committed rows emps: no
\* statement when nothing has changed, else UPDATE .. WHERE id = was.id
UpdateEmployee(emps, data, was) ==
    LET cols == ChangedColumns(data, was)
        cur == EmployeeById(emps, was.id)
        new == UpdatedRow(cur, data, cols)
    IN  IF cols = {} THEN [error |-> "none", rows |-> emps, wrote |-> 0]
        ELSE IF cur = NoRow
             THEN [error |-> "StaleDataError", rows |-> emps, wrote |-> 0]
             ELSE IF EmployeeUniqueViolation(emps, new)
                  THEN [error |-> "IntegrityError", rows |-> emps, wrote |-> 0]
                  ELSE [error |-> "none", rows |-> (emps \ {cur}) \cup {new},
                        wrote |-> cur.id]

\* the request is validated and the service reads the employee
UpdateGet(s, id, payload) ==
    /\ CanBegin(s)
    /\ LET data == EmployeeUpdate(payload)
           employee == EmployeeById(employees, id)
       IN  IF ~data.ok
           THEN /\ Rejected(s, "update")
           ELSE /\ ops' = ops + 1
                /\ req' = [req EXCEPT ![s] =
                             [NoReq EXCEPT !.op = "update", !.id = id,
                                           !.full_name = data.full_name,
                                           !.email = data.email,
                                           !.department = data.department]]
                /\ hist' = Begun(s, employee # NoRow)
                /\ IF employee = NoRow
                   THEN End(s, EmployeeNotFoundException(id))
                   ELSE /\ pc' = [pc EXCEPT ![s] =
                                    IF data.email # None THEN "update_check_email"
                                    ELSE "update_commit"]
                        /\ loaded' = [loaded EXCEPT ![s].employee = employee]
                        /\ UNCHANGED result
    /\ UNCHANGED <<employees, attendance, emp_seq, att_seq, today, budget, deleted>>

\* a conflict raised on any holder of the email, the employee itself too
EmailConflict_AnyHolder(existing, employee_id) == existing # NoRow

\* if existing and existing.id != employee_id
EmailConflict(existing, employee_id) ==
    existing # NoRow /\ existing.id # employee_id

\* the email conflict check
UpdateCheckEmail(s) ==
    /\ pc[s] = "update_check_email"
    /\ LET existing == get_employee_by_email(employees, req[s].email)
       IN  IF EmailConflict(existing, req[s].id)
           THEN End(s, DuplicateEmployeeException("email", req[s].email))
           ELSE /\ pc' = [pc EXCEPT ![s] = "update_commit"]
                /\ UNCHANGED <<result, loaded>>
    /\ UNCHANGED <<employees, attendance, emp_seq, att_seq, today, budget, req, hist,
                   ops, deleted>>

\* setattr for every supplied field, then db.commit()
UpdateCommit(s) ==
    /\ pc[s] = "update_commit"
    /\ LET upd == UpdateEmployee(employees, req[s], loaded[s].employee)
       IN  /\ employees' = upd.rows
           /\ hist' = [hist EXCEPT ![s].wrote = upd.wrote]
           /\ CASE upd.error = "none" ->
                     /\ pc' = [pc EXCEPT ![s] = "update_refresh"]
                     /\ UNCHANGED <<result, loaded>>
                [] upd.error = "IntegrityError" ->
                     End(s, DuplicateEmployeeException(DefaultField, None))
                [] upd.error = "StaleDataError" ->
                     End(s, StaleDataError(req[s].id))
    /\ UNCHANGED <<attendance, emp_seq, att_seq, today, budget, req, ops, deleted>>

\* db.refresh(employee)
UpdateRefresh(s) ==
    /\ pc[s] = "update_refresh"
    /\ LET row == EmployeeById(employees, req[s].id)
       IN  IF row = NoRow
           THEN End(s, InvalidRequestError(req[s].id))
           ELSE End(s, Returned(row.id, 0, 0))
    /\ UNCHANGED <<employees, attendance, emp_seq, att_seq, today, budget, req, hist,
                   ops, deleted>>

-----------------------------------------------------------------------------
(* EmployeeService.delete_employee *)

\* a delete that commits the deletion of the children and leaves the employee
DeleteEmployee_ChildrenOnly(emps, att, id, children) ==
    [employees |-> emps, attendance |-> {a \in att : a.id \notin children}]

\* the flush and COMMIT of delete_employee's db.commit(): the relationship's
\* cascade deletes the children the session loaded, row by row, the employee
\* is deleted, and the foreign key's ON DELETE CASCADE takes the rows of
\* attendance that still reference it.  A DELETE that matches no row is a
\* warning in SQLAlchemy, not an error.
DeleteEmployee(emps, att, id, children) ==
    [employees |-> {e \in emps : e.id # id},
     attendance |-> IF \E e \in emps : e.id = id
                    THEN OnDeleteCascade({a \in att : a.id \notin children}, id)
                    ELSE {a \in att : a.id \notin children}]

\* get_employee_by_id
DeleteGet(s, id) ==
    /\ CanBegin(s)
    /\ LET employee == EmployeeById(employees, id)
       IN  /\ ops' = ops + 1
           /\ req' = [req EXCEPT ![s] = [NoReq EXCEPT !.op = "delete", !.id = id]]
           /\ hist' = Begun(s, employee # NoRow)
           /\ IF employee = NoRow
              THEN End(s, EmployeeNotFoundException(id))
              ELSE /\ pc' = [pc EXCEPT ![s] = "delete_load"]
                   /\ loaded' = [loaded EXCEPT ![s].employee = employee]
                   /\ UNCHANGED result
    /\ UNCHANGED <<employees, attendance, emp_seq, att_seq, today, budget, deleted>>

\* db.delete(employee); db.commit() begins its flush: cascade="all,
\* delete-orphan" loads employee.attendance_records
DeleteLoad(s) ==
    /\ pc[s] = "delete_load"
    /\ loaded' = [loaded EXCEPT ![s].children =
                    {a.id : a \in AttendanceOf(attendance, req[s].id)}]
    /\ pc' = [pc EXCEPT ![s] = "delete_commit"]
    /\ UNCHANGED <<employees, attendance, emp_seq, att_seq, today, budget, req, result,
                   hist, ops, deleted>>

\* the DELETE statements and the COMMIT
DeleteCommit(s) ==
    /\ pc[s] = "delete_commit"
    /\ LET del == DeleteEmployee(employees, attendance, req[s].id,
                                 loaded[s].children)
       IN  /\ employees' = del.employees
           /\ attendance' = del.attendance
           /\ deleted' = deleted \cup {e.id : e \in employees \ del.employees}
           /\ hist' = [hist EXCEPT ![s].wrote =
                         IF del.employees # employees THEN req[s].id ELSE 0]
           /\ End(s, Returned(req[s].id,
                              Cardinality(attendance \ del.attendance), 0))
    /\ UNCHANGED <<emp_seq, att_seq, today, budget, req, ops>>

-----------------------------------------------------------------------------
(* AttendanceService.mark_attendance *)

\* an INSERT that replaces the record of the same employee and date
InsertAttendance_Upsert(emps, att, row) ==
    IF \A e \in emps : e.id # row.employee_id
    THEN [error |-> "IntegrityError", rows |-> att]
    ELSE [error |-> "none",
          rows |-> {a \in att : ~(a.employee_id = row.employee_id /\ a.date = row.date)}
                   \cup {row}]

\* an INSERT of attendance the store does not check
InsertAttendance_Unchecked(emps, att, row) ==
    [error |-> "none", rows |-> att \cup {row}]

\* the INSERT of db.add + db.commit: the row is written, or the statement
\* fails on the foreign key, on uq_employee_date or on ck_attendance_status
\* and writes nothing
InsertAttendance(emps, att, row) ==
    IF \/ ForeignKeyViolation(emps, row)
       \/ AttendanceUniqueViolation(att, row)
       \/ StatusCheckViolation(row)
    THEN [error |-> "IntegrityError", rows |-> att]
    ELSE [error |-> "none", rows |-> att \cup {row}]

\* the request is validated; the service checks the date, then reads the
\* employee
MarkCheckEmployee(s, payload) ==
    /\ CanBegin(s)
    /\ LET data == AttendanceCreate(payload, today)
           employee == EmployeeById(employees, data.employee_id)
       IN  IF ~data.ok
           THEN /\ RejectedBody(s, [NoReq EXCEPT !.op = "mark",
                                                  !.date = payload.date])
           ELSE /\ ops' = ops + 1
                /\ req' = [req EXCEPT ![s] =
                             [NoReq EXCEPT !.op = "mark",
                                           !.id = data.employee_id,
                                           !.date = data.attendance_date,
                                           !.status = data.status]]
                /\ hist' = Begun(s, /\ employee # NoRow
                                /\ ~check_duplicate_attendance(attendance,
                                       data.employee_id, data.attendance_date))
                /\ IF data.attendance_date > today
                   THEN End(s, InvalidDateException(data.attendance_date))
                   ELSE IF employee = NoRow
                        THEN End(s, EmployeeNotFoundException(data.employee_id))
                        ELSE /\ pc' = [pc EXCEPT ![s] = "mark_check_duplicate"]
                             /\ UNCHANGED <<result, loaded>>
    /\ UNCHANGED <<employees, attendance, emp_seq, att_seq, today, budget, deleted>>

\* check_duplicate_attendance
MarkCheckDuplicate(s) ==
    /\ pc[s] = "mark_check_duplicate"
    /\ IF check_duplicate_attendance(attendance, req[s].id, req[s].date)
       THEN End(s, DuplicateAttendanceException(req[s].id, req[s].date))
       ELSE /\ pc' = [pc EXCEPT ![s] = "mark_commit"]
            /\ UNCHANGED <<result, loaded>>
    /\ UNCHANGED <<employees, attendance, emp_seq, att_seq, today, budget, req,
                   hist, ops, deleted>>

\* db.add, db.commit: any IntegrityError is rolled back and raised as
\* DuplicateAttendanceException
MarkCommit(s) ==
    /\ pc[s] = "mark_commit"
    /\ LET db_attendance == [id |-> att_seq + 1,
                             employee_id |-> req[s].id,
                             date |-> req[s].date,
                             status |-> req[s].status]
           ins == InsertAttendance(employees, attendance, db_attendance)
       IN  /\ att_seq' = att_seq + 1
           /\ attendance' = ins.rows
           /\ IF ins.error = "none"
              THEN /\ pc' = [pc EXCEPT ![s] = "mark_refresh"]
                   /\ loaded' = [loaded EXCEPT ![s].row = db_attendance.id]
                   /\ hist' = [hist EXCEPT ![s].wrote = db_attendance.id]
                   /\ UNCHANGED result
              ELSE /\ End(s, DuplicateAttendanceException(req[s].id, req[s].date))
                   /\ UNCHANGED hist
    /\ UNCHANGED <<employees, emp_seq, today, budget, req, ops, deleted>>

\* a refresh that writes the employee's updated_at
MarkRefresh_Touch(s) ==
    /\ pc[s] = "mark_refresh"
    /\ IF \E a \in attendance : a.id = loaded[s].row
       THEN End(s, Returned(loaded[s].row, 0, 0))
       ELSE End(s, InvalidRequestError(loaded[s].row))
    /\ employees' = {[e EXCEPT !.updated_at = IF e.id = req[s].id THEN utcnow ELSE @] :
                        e \in employees}
    /\ UNCHANGED <<attendance, emp_seq, att_seq, today, budget, req,
                   hist, ops, deleted>>

\* db.refresh(db_attendance)
MarkRefresh(s) ==
    /\ pc[s] = "mark_refresh"
    /\ IF \E a \in attendance : a.id = loaded[s].row
       THEN End(s, Returned(loaded[s].row, 0, 0))
       ELSE End(s, InvalidRequestError(loaded[s].row))
    /\ UNCHANGED <<employees, attendance, emp_seq, att_seq, today, budget, req,
                   hist, ops, deleted>>

-----------------------------------------------------------------------------
(* AttendanceService.get_attendance_by_employee, calculate_present_days *)

\* the employee is read: both services begin with the same query
ReadCheckEmployee(s, op, id) ==
    /\ CanBegin(s)
    /\ LET employee == EmployeeById(employees, id)
       IN  /\ ops' = ops + 1
           /\ req' = [req EXCEPT ![s] = [NoReq EXCEPT !.op = op, !.id = id]]
           /\ hist' = [Begun(s, id \in deleted) EXCEPT
                         ![s].seen = Cardinality(AttendanceOf(attendance, id))]
           /\ IF employee = NoRow
              THEN End(s, EmployeeNotFoundException(id))
              ELSE /\ pc' = [pc EXCEPT ![s] = op]
                   /\ loaded' = [loaded EXCEPT ![s].employee = employee]
                   /\ UNCHANGED result
    /\ UNCHANGED <<employees, attendance, emp_seq, att_seq, today, budget, deleted>>

\* the sequences that hold every row of rows once, the first any row of the
\* earliest date, and so on: ORDER BY date ASC
RECURSIVE OrderByDateAsc(_)
OrderByDateAsc(rows) ==
    IF rows = {} THEN {<<>>}
    ELSE UNION {{<<r>> \o o : o \in OrderByDateAsc(rows \ {r})} :
                   r \in {x \in rows : \A y \in rows : x.date <= y.date}}

\* ORDER BY date DESC: the rows of the latest date first; the store orders
\* rows of one date as it finds them
RECURSIVE OrderByDateDesc(_)
OrderByDateDesc(rows) ==
    IF rows = {} THEN {<<>>}
    ELSE UNION {{<<r>> \o o : o \in OrderByDateDesc(rows \ {r})} :
                   r \in {x \in rows : \A y \in rows : x.date >= y.date}}

\* the ids of a sequence of rows
Ids(o) == [i \in DOMAIN o |-> o[i].id]

\* get_attendance_by_employee: the query of the employee's records
ByEmployeeQuery(s) ==
    /\ pc[s] = "by_employee"
    /\ LET records == AttendanceOf(attendance, req[s].id)
       IN  \E o \in OrderByDateDesc(records) :
              End(s, [Returned(req[s].id, Cardinality(records), 0) EXCEPT
                         !.rows = Ids(o)])
    /\ UNCHANGED <<employees, attendance, emp_seq, att_seq, today, budget, req,
                   hist, ops, deleted>>

\* Optional[int]: the empty set for None, {i} for the integer i
Optional(ids) == {{}} \cup {{i} : i \in ids}

\* Python's `if employee_id:`, true of an integer other than 0
Truthy(employee_id) == employee_id # {} /\ employee_id # {0}

\* the rows of get_attendance_by_date_range's query: those of the dates
\* from start_date to end_date, of the employee if `if employee_id:` holds
DateRange(att, start_date, end_date, employee_id) ==
    {a \in att : /\ a.date >= start_date /\ a.date <= end_date
                 /\ Truthy(employee_id) => a.employee_id \in employee_id}

\* get_attendance_by_date_range: one query, no check of the employee
get_attendance_by_date_range(s, start_date, end_date, employee_id) ==
    /\ CanBegin(s)
    /\ ops' = ops + 1
    /\ req' = [req EXCEPT ![s] = [NoReq EXCEPT !.op = "by_date_range",
                                               !.start_date = start_date,
                                               !.end_date = end_date,
                                               !.employee = employee_id]]
    /\ hist' = Begun(s, FALSE)
    /\ \E o \in OrderByDateDesc(DateRange(attendance, start_date, end_date,
                                          employee_id)) :
          End(s, [Returned(0, Len(o), 0) EXCEPT !.rows = Ids(o)])
    /\ UNCHANGED <<employees, attendance, emp_seq, att_seq, today, budget, deleted>>

\* get_attendance_by_date: one query, the rows of the date in the order the
\* store finds them
get_attendance_by_date(s, attendance_date) ==
    /\ CanBegin(s)
    /\ ops' = ops + 1
    /\ req' = [req EXCEPT ![s] = [NoReq EXCEPT !.op = "by_date",
                                               !.date = attendance_date]]
    /\ hist' = Begun(s, FALSE)
    /\ \E o \in OrderByDateDesc({a \in attendance : a.date = attendance_date}) :
          End(s, [Returned(0, Len(o), 0) EXCEPT !.rows = Ids(o)])
    /\ UNCHANGED <<employees, attendance, emp_seq, att_seq, today, budget, deleted>>

\* round(x, 2) of x = num / den * 100, in hundredths: to the nearest
\* hundredth, a tie to the even one
Round2_Truncated(num, den) == (10000 * num) \div den

Round2(num, den) ==
    LET q == (10000 * num) \div den
        r == (10000 * num) % den
    IN  IF 2 * r > den THEN q + 1
        ELSE IF 2 * r < den THEN q
        ELSE IF q % 2 = 0 THEN q ELSE q + 1

\* a dict whose absent_days is left at zero
Statistics_NoAbsent(id, total_days, present_days, absent_days, attendance_percentage) ==
    [Returned(id, total_days, present_days) EXCEPT
        !.percentage = attendance_percentage]

\* the dict calculate_present_days returns; attendance_percentage in
\* hundredths of a percent
Statistics(id, total_days, present_days, absent_days, attendance_percentage) ==
    [Returned(id, total_days, present_days) EXCEPT
        !.absent = absent_days, !.percentage = attendance_percentage]

\* calculate_present_days: the query of the records, and the statistics
SummaryQuery(s) ==
    /\ pc[s] = "summary"
    /\ LET records == AttendanceOf(attendance, req[s].id)
           total_days == Cardinality(records)
           present_days == Cardinality({r \in records : r.status = "Present"})
           absent_days == total_days - present_days
           attendance_percentage == IF total_days > 0
                                    THEN Round2(present_days, total_days)
                                    ELSE 0
       IN  End(s, Statistics(req[s].id, total_days, present_days, absent_days,
                             attendance_percentage))
    /\ UNCHANGED <<employees, attendance, emp_seq, att_seq, today, budget, req,
                   hist, ops, deleted>>

-----------------------------------------------------------------------------
(* EmployeeService.get_employee_by_id, GET /api/employees/{employee_id} *)

\* a lookup that answers for an id no employee has
get_employee_by_id_Lenient(s, id) ==
    /\ CanBegin(s)
    /\ ops' = ops + 1
    /\ req' = [req EXCEPT ![s] = [NoReq EXCEPT !.op = "get_by_id", !.id = id]]
    /\ hist' = Begun(s, EmployeeById(employees, id) # NoRow)
    /\ End(s, Returned(id, 0, 0))
    /\ UNCHANGED <<employees, attendance, emp_seq, att_seq, today, budget, deleted>>

\* the one query of the service: the employee, or EmployeeNotFoundException
get_employee_by_id(s, id) ==
    /\ CanBegin(s)
    /\ LET employee == EmployeeById(employees, id)
       IN  /\ ops' = ops + 1
           /\ req' = [req EXCEPT ![s] = [NoReq EXCEPT !.op = "get_by_id", !.id = id]]
           /\ hist' = Begun(s, employee # NoRow)
           /\ IF employee = NoRow
              THEN End(s, EmployeeNotFoundException(id))
              ELSE End(s, Returned(employee.id, 0, 0))
    /\ UNCHANGED <<employees, attendance, emp_seq, att_seq, today, budget, deleted>>

-----------------------------------------------------------------------------
(* EmployeeService.get_all_employees, get_employee_count;
   GET /api/employees *)

\* the sequences that hold every row of rows once
Orders(rows) ==
    {o \in [1..Cardinality(rows) -> rows] :
        \A i, j \in DOMAIN o : i # j => o[i] # o[j]}

\* ORDER BY id DESC
OrderByIdDesc(rows) ==
    CHOOSE o \in Orders(rows) : \A i, j \in DOMAIN o : i < j => o[i].id > o[j].id

\* a SELECT without ORDER BY: the store returns the rows in the order it
\* finds them, which no statement of the program fixes
Unordered(rows) == Orders(rows)

\* OFFSET skip LIMIT limit
OffsetLimit(o, skip, limit) ==
    SubSeq(o, skip + 1, Min({skip + limit, Len(o)}))

\* the sequence of rows a read returns, with a count
ReturnedRows(o, total) == [Returned(0, total, 0) EXCEPT !.rows = Ids(o)]

\* the offsets and limits a caller passes: skip >= 0, limit >= 1
Skips == 0..emp_seq
Limits == 1..(emp_seq + 1)

\* EmployeeService.get_all_employees: one query, no ORDER BY
get_all_employees(s, skip, limit) ==
    /\ CanBegin(s)
    /\ ops' = ops + 1
    /\ req' = [req EXCEPT ![s] = [NoReq EXCEPT !.op = "get_all_employees",
                                               !.skip = skip, !.limit = limit]]
    /\ hist' = Begun(s, FALSE)
    /\ \E o \in Unordered(employees) :
          End(s, ReturnedRows(OffsetLimit(o, skip, limit), 0))
    /\ UNCHANGED <<employees, attendance, emp_seq, att_seq, today, budget, deleted>>

\* EmployeeService.get_employee_count
get_employee_count(s) ==
    /\ CanBegin(s)
    /\ ops' = ops + 1
    /\ req' = [req EXCEPT ![s] = [NoReq EXCEPT !.op = "get_employee_count"]]
    /\ hist' = Begun(s, FALSE)
    /\ End(s, Returned(0, Cardinality(employees), 0))
    /\ UNCHANGED <<employees, attendance, emp_seq, att_seq, today, budget, deleted>>

\* the route without a department: its first statement counts the employees
ListCount(s, skip, limit) ==
    /\ CanBegin(s)
    /\ ops' = ops + 1
    /\ req' = [req EXCEPT ![s] = [NoReq EXCEPT !.op = "list",
                                               !.skip = skip, !.limit = limit]]
    /\ hist' = [Begun(s, FALSE) EXCEPT ![s].seen = Cardinality(employees)]
    /\ pc' = [pc EXCEPT ![s] = "list"]
    /\ UNCHANGED <<result, loaded>>
    /\ UNCHANGED <<employees, attendance, emp_seq, att_seq, today, budget, deleted>>

\* the route's second statement: ORDER BY id DESC OFFSET skip LIMIT limit
ListQuery(s) ==
    /\ pc[s] = "list"
    /\ End(s, ReturnedRows(OffsetLimit(OrderByIdDesc(employees),
                                       req[s].skip, req[s].limit),
                           hist[s].seen))
    /\ UNCHANGED <<employees, attendance, emp_seq, att_seq, today, budget, req,
                   hist, ops, deleted>>

-----------------------------------------------------------------------------
(* GET /api/attendance; AttendanceService.get_attendance_count *)

\* AttendanceService.get_attendance_count: the count of all the records
get_attendance_count(att) == Cardinality(att)

\* ORDER BY date DESC, id DESC
OrderByDateIdDesc(rows) ==
    CHOOSE o \in Orders(rows) :
        \A i, j \in DOMAIN o :
            i < j => \/ o[i].date > o[j].date
                     \/ o[i].date = o[j].date /\ o[i].id > o[j].id

\* the route's first statement: with a date, get_attendance_by_date and
\* total = len(records); without one, the count of all the records
AttendanceListFirst(s, skip, limit, date_filter) ==
    /\ CanBegin(s)
    /\ ops' = ops + 1
    /\ req' = [req EXCEPT ![s] = [NoReq EXCEPT !.op = "attendance_list",
                                               !.skip = skip, !.limit = limit,
                                               !.date_filter = date_filter]]
    /\ LET records == {a \in attendance : a.date \in date_filter}
       IN  /\ hist' = [Begun(s, FALSE) EXCEPT ![s].seen =
                         IF date_filter # {} THEN Cardinality(records)
                         ELSE Cardinality(attendance)]
           /\ loaded' = [loaded EXCEPT ![s].children = {a.id : a \in records}]
    /\ pc' = [pc EXCEPT ![s] = "attendance_list"]
    /\ UNCHANGED result
    /\ UNCHANGED <<employees, attendance, emp_seq, att_seq, today, budget, deleted>>

\* the route's second statement and its response.  Without a date: the join
\* of the records with their employees, ordered, OFFSET skip LIMIT limit, and
\* the total counted before.  With a date: total is assigned again, from
\* get_attendance_count, and the records read before are returned, all of
\* them, in the order the store found them
AttendanceListSecond(s) ==
    /\ pc[s] = "attendance_list"
    /\ IF req[s].date_filter # {}
       THEN \E o \in Unordered(loaded[s].children) :
               End(s, [Returned(0, get_attendance_count(attendance), 0) EXCEPT
                          !.rows = o])
       ELSE LET joined == {a \in attendance :
                              \E e \in employees : e.id = a.employee_id}
            IN  End(s, ReturnedRows(OffsetLimit(OrderByDateIdDesc(joined),
                                                req[s].skip, req[s].limit),
                                    hist[s].seen))
    /\ UNCHANGED <<employees, attendance, emp_seq, att_seq, today, budget, req,
                   hist, ops, deleted>>

-----------------------------------------------------------------------------
(* Failures of the store *)

\* a session that keeps what it has flushed when an exception passes
rollback_Kept(committed, flushed) == flushed

\* get_db's `except Exception: db.rollback()`: the rows the transaction has
\* flushed are discarded, the committed ones stay
rollback(committed, flushed) == committed

\* the tables as the transaction of session s sees them when the statements
\* of its flush have run in part and its COMMIT has not: the INSERT or the
\* UPDATE of a create, a mark or an update, and of a delete the DELETEs of
\* the children, the employee's own DELETE still ahead
Flushed(s) ==
    CASE pc[s] = "create_commit" ->
            [employees |-> employees \cup
                             {[NoRow EXCEPT !.id = emp_seq + 1,
                                            !.employee_id = req[s].employee_id,
                                            !.full_name = req[s].full_name,
                                            !.email = Lower(req[s].email),
                                            !.department = req[s].department,
                                            !.created_at = utcnow,
                                            !.updated_at = utcnow]},
             attendance |-> attendance]
      [] pc[s] = "update_commit" ->
            [employees |-> UpdateEmployee(employees, req[s],
                                          loaded[s].employee).rows,
             attendance |-> attendance]
      [] pc[s] = "delete_commit" ->
            [employees |-> employees,
             attendance |-> {a \in attendance : a.id \notin loaded[s].children}]
      [] pc[s] = "mark_commit" ->
            [employees |-> employees,
             attendance |-> attendance \cup
                              {[id |-> att_seq + 1, employee_id |-> req[s].id,
                                date |-> req[s].date, status |-> req[s].status]}]
      [] OTHER -> [employees |-> employees, attendance |-> attendance]

\* the store fails the statement session s runs next: OperationalError
\* leaves the service uncaught, get_db rolls back, the caller gets a 500
Fault(s) ==
    /\ pc[s] # "idle"
    /\ employees' = rollback(employees, Flushed(s).employees)
    /\ attendance' = rollback(attendance, Flushed(s).attendance)
    /\ End(s, OperationalError(req[s].id))
    /\ UNCHANGED <<emp_seq, att_seq, today, budget, req, hist, ops, deleted>>

\* the store fails the first statement of a call whose body has validated
FaultAtBegin(s, op, id) ==
    /\ CanBegin(s)
    /\ ops' = ops + 1
    /\ req' = [req EXCEPT ![s] = [NoReq EXCEPT !.op = op, !.id = id]]
    /\ hist' = Begun(s, FALSE)
    /\ End(s, OperationalError(id))
    /\ UNCHANGED <<employees, attendance, emp_seq, att_seq, today, budget, deleted>>

-----------------------------------------------------------------------------
(* The locks of the statements of a flush *)

\* a lock of the store: an entry of a unique index being inserted or
\* deleted, or a lock on a row
Lock(tab, id, date, str, mode) ==
    [tab |-> tab, id |-> id, date |-> date, str |-> str, mode |-> mode]

\* two transactions cannot both hold a and b: FOR KEY SHARE, which the
\* foreign key check takes on the employee, goes with itself and with the
\* lock of an UPDATE that leaves the key alone, every other pair on the same
\* row or index entry does not
Conflict(a, b) ==
    /\ a.tab = b.tab /\ a.id = b.id /\ a.date = b.date /\ a.str = b.str
    /\ {a.mode, b.mode} \notin {{"key_share"}, {"key_share", "update"}}

\* the session runs db.commit(): its flush, then COMMIT
InFlush(s) ==
    pc[s] \in {"create_commit", "update_commit", "delete_commit", "mark_commit"}

\* the locks the transaction of session s holds; COMMIT and ROLLBACK
\* release them
Held(s) == IF InFlush(s) THEN loaded[s].locks ELSE {}

\* the ids of S in ascending order: the unit of work sorts its DELETEs by
\* primary key
RECURSIVE SortedIds(_)
SortedIds(S) == IF S = {} THEN <<>> ELSE <<Min(S)>> \o SortedIds(S \ {Min(S)})

\* the locks of the DELETE of the attendance rows ids, in order: the row,
\* and its entry in uq_employee_date
RowDeletes(ids) ==
    LET o == SortedIds({i \in ids : \E a \in attendance : a.id = i})
        rec(i) == CHOOSE a \in attendance : a.id = o[i]
    IN  [k \in 1..(2 * Len(o)) |->
           IF k % 2 = 1
           THEN Lock("attendance", o[(k + 1) \div 2], 0, <<>>, "delete")
           ELSE Lock("uq_employee_date", rec(k \div 2).employee_id,
                     rec(k \div 2).date, <<>>, "delete")]

\* the locks the statements of the flush of session s take, in the order
\* they take them
Wanted(s) ==
    CASE pc[s] = "create_commit" ->
            <<Lock("ix_employees_employee_id", 0, 0, req[s].employee_id, "insert"),
              Lock("ix_employees_email", 0, 0, Lower(req[s].email), "insert")>>
      [] pc[s] = "update_commit" ->
            LET cols == ChangedColumns(req[s], loaded[s].employee)
            IN  IF cols = {} \/ EmployeeById(employees, req[s].id) = NoRow
                THEN <<>>
                ELSE <<Lock("employees", req[s].id, 0, <<>>, "update")>>
                     \o (IF "email" \in cols
                         THEN <<Lock("ix_employees_email", 0, 0, req[s].email,
                                     "insert")>>
                         ELSE <<>>)
      [] pc[s] = "delete_commit" ->
            RowDeletes(loaded[s].children)
            \o (IF EmployeeById(employees, req[s].id) = NoRow THEN <<>>
                ELSE <<Lock("employees", req[s].id, 0, <<>>, "delete")>>
                     \o RowDeletes({a.id : a \in AttendanceOf(attendance, req[s].id)}
                                   \ loaded[s].children))
      [] pc[s] = "mark_commit" ->
            <<Lock("uq_employee_date", req[s].id, req[s].date, <<>>, "insert")>>
            \o (IF EmployeeById(employees, req[s].id) = NoRow THEN <<>>
                ELSE <<Lock("employees", req[s].id, 0, <<>>, "key_share")>>)
      [] OTHER -> <<>>

\* the flush of session s has every lock it takes: COMMIT is next
Ready(s) == \A i \in DOMAIN Wanted(s) : Wanted(s)[i] \in loaded[s].locks

\* the lock the flush of session s takes next
NextWanted(s) ==
    LET i == Min({j \in DOMAIN Wanted(s) : Wanted(s)[j] \notin loaded[s].locks})
    IN  Wanted(s)[i]

\* session s waits for a lock session t holds
WaitsFor(s, t) ==
    /\ s # t /\ InFlush(s) /\ ~Ready(s)
    /\ \E l \in Held(t) : Conflict(NextWanted(s), l)

\* the sessions a chain of at most n waits leads to from session s
RECURSIVE WaitChain(_, _)
WaitChain(s, n) ==
    IF n = 0 THEN {}
    ELSE LET direct == {t \in Sessions : WaitsFor(s, t)}
         IN  direct \cup UNION {WaitChain(t, n - 1) : t \in direct}

\* a store that looks for no cycle of waits
Deadlocked_Never(s) == FALSE

\* session s waits in a cycle of waits
Deadlocked(s) == s \in WaitChain(s, NumSessions)

\* a statement of the flush of session s takes its next lock, once no other
\* transaction holds one against it
Acquire(s) ==
    /\ InFlush(s) /\ ~Ready(s)
    /\ \A t \in Sessions \ {s} : ~WaitsFor(s, t)
    /\ loaded' = [loaded EXCEPT ![s].locks = @ \cup {NextWanted(s)}]
    /\ UNCHANGED <<employees, attendance, emp_seq, att_seq, today, pc, req,
                   result, hist, ops, budget, deleted>>

\* PostgreSQL finds session s in a cycle of waits after deadlock_timeout and
\* aborts its transaction: the statement raises OperationalError
DeadlockDetected(s) ==
    /\ Deadlocked(s)
    /\ End(s, OperationalError(req[s].id))
    /\ UNCHANGED <<employees, attendance, emp_seq, att_seq, today, budget, req,
                   hist, ops, deleted>>

\* midnight
Tick ==
    /\ today < MaxDay
    /\ today' = today + 1
    /\ UNCHANGED <<employees, attendance, emp_seq, att_seq, budget, pc, req,
                   loaded, result, hist, ops, deleted>>

\* the bodies of POST /api/attendance
MarkPayloads ==
    {[employee_id |-> id, date |-> d, status |-> PresentStr] :
        id \in TargetIds, d \in Days}
    \cup
    {[employee_id |-> id, date |-> MaxDay, status |-> AbsentStr] : id \in TargetIds}
    \cup
    {\* a status the validator normalises, one it rejects, a date in the
     \* future, an id that is not positive
     [employee_id |-> 1, date |-> 1, status |-> <<" ", "a", "b", "s", "e", "n", "t">>],
     [employee_id |-> 1, date |-> 1, status |-> <<"L", "a", "t", "e">>],
     [employee_id |-> 1, date |-> today + 1, status |-> PresentStr],
     [employee_id |-> 0, date |-> 1, status |-> PresentStr]}

\* the marks the four writers are raced on
WritesMarkPayloads ==
    {[employee_id |-> id, date |-> d, status |-> PresentStr] :
        id \in TargetIds, d \in Days}
    \cup
    {[employee_id |-> 1, date |-> 1, status |-> <<"L", "a", "t", "e">>]}

\* the employees the ledger's behaviours create
LedgerCreatePayloads ==
    {[employee_id |-> E1, full_name |-> Jo, email |-> MailA, department |-> Dept],
     [employee_id |-> E2, full_name |-> Jo, email |-> MailB, department |-> Dept]}

-----------------------------------------------------------------------------
(* Specifications *)

Create(P) ==
    \/ \E s \in Sessions : \E payload \in P : CreateCheckEmployeeId(s, payload)
    \/ \E s \in Sessions : CreateCheckEmail(s)
    \/ \E s \in Sessions : CreateCommit(s)
    \/ \E s \in Sessions : CreateRefresh(s)

Update(P) ==
    \/ \E s \in Sessions : \E id \in TargetIds : \E payload \in P :
          UpdateGet(s, id, payload)
    \/ \E s \in Sessions : UpdateCheckEmail(s)
    \/ \E s \in Sessions : UpdateCommit(s)
    \/ \E s \in Sessions : UpdateRefresh(s)

Delete ==
    \/ \E s \in Sessions : \E id \in TargetIds : DeleteGet(s, id)
    \/ \E s \in Sessions : DeleteLoad(s)
    \/ \E s \in Sessions : DeleteCommit(s)

Mark(P) ==
    \/ \E s \in Sessions : \E payload \in P : MarkCheckEmployee(s, payload)
    \/ \E s \in Sessions : MarkCheckDuplicate(s)
    \/ \E s \in Sessions : MarkCommit(s)
    \/ \E s \in Sessions : MarkRefresh(s)

Read ==
    \/ \E s \in Sessions : \E id \in TargetIds :
          \E op \in {"by_employee", "summary"} : ReadCheckEmployee(s, op, id)
    \/ \E s \in Sessions : ByEmployeeQuery(s)
    \/ \E s \in Sessions : SummaryQuery(s)

GetById == \E s \in Sessions : \E id \in TargetIds : get_employee_by_id(s, id)

List ==
    \/ \E s \in Sessions : \E skip \in Skips : \E limit \in Limits :
          get_all_employees(s, skip, limit)
    \/ \E s \in Sessions : get_employee_count(s)
    \/ \E s \in Sessions : \E skip \in Skips : \E limit \in Limits :
          ListCount(s, skip, limit)
    \/ \E s \in Sessions : ListQuery(s)

\* the employee a range query is asked for: none, the id no employee has
\* had (the sequence of ids begins at 1), an employee's id
RangeEmployees == Optional({0} \cup TargetIds)

ByDate ==
    \/ \E s \in Sessions : \E start_date, end_date \in Days :
          \E employee_id \in RangeEmployees :
             get_attendance_by_date_range(s, start_date, end_date, employee_id)
    \/ \E s \in Sessions : \E d \in Days : get_attendance_by_date(s, d)

\* the store failing a statement
Faults ==
    \/ \E s \in Sessions : Fault(s)
    \/ \E s \in Sessions : \E id \in TargetIds :
          \E op \in {"create", "update", "delete", "mark", "by_employee", "summary"} :
             FaultAtBegin(s, op, id)

\* the whole service, the clock running
Next ==
    \/ Create(CreatePayloads) \/ Update(UpdatePayloads) \/ Delete
    \/ Mark(MarkPayloads) \/ Read \/ Tick \/ Faults \/ GetById \/ List
    \/ ByDate

Spec == Init /\ [][Next]_vars

\* the four writing operations raced on one another, from the seeded store
NextWrites ==
    \/ Create(WritesCreatePayloads) \/ Update(WritesUpdatePayloads) \/ Delete
    \/ Mark(WritesMarkPayloads)

SpecWrites == InitSeeded /\ [][NextWrites]_vars

\* the employee registry alone, from the seeded store
NextRegistry == Create(CreatePayloads) \/ Update(UpdatePayloads) \/ Delete

SpecRegistry == InitSeeded /\ [][NextRegistry]_vars

\* the attendance ledger, from the seeded store, over the employees of
\* LedgerCreatePayloads
NextLedger == Create(LedgerCreatePayloads) \/ Delete \/ Mark(MarkPayloads) \/ Read

SpecLedger == InitSeeded /\ [][NextLedger]_vars

-----------------------------------------------------------------------------
(* Claims *)

\* the last call of session s has ended: req, result and hist are its own
Done(s) == pc[s] = "idle" /\ req[s].op # "none"

\* the calls of p and q raced: one began while the other was in flight with
\* its COMMIT still ahead
Concurrent(p, q) == p \in hist[q].during \/ q \in hist[p].during

\* no session other than p and q has committed a write
NoThirdWriter(p, q) == \A r \in Sessions \ {p, q} : hist[r].wrote = 0

\* C1: in every committed state no two distinct employees share an
\* employee_id, and no two share an email compared without regard to case,
\* whatever creates, updates and deletes run concurrently
C1_IdentityUnique ==
    \A e1, e2 \in employees :
        e1 # e2 => /\ e1.id # e2.id
                   /\ e1.employee_id # e2.employee_id
                   /\ Lower(e1.email) # Lower(e2.email)

\* two employees are committed and a create that had passed both pre-checks
\* was refused by the store at its COMMIT
C1_Witness ==
    /\ Cardinality(employees) >= 2
    /\ \E s \in Sessions :
          /\ Done(s) /\ req[s].op = "create"
          /\ result[s].kind = "DuplicateEmployeeException"
          /\ hist[s].would # "none"

\* C2: in every committed state no two attendance records share both the
\* employee and the date, whatever marks run concurrently
C2_RecordUnique ==
    \A a1, a2 \in attendance :
        a1 # a2 => /\ a1.id # a2.id
                   /\ ~(a1.employee_id = a2.employee_id /\ a1.date = a2.date)

\* two marks of the same employee and date both passed the duplicate check,
\* one committed and the store refused the other
C2_Witness ==
    \E p, q \in Sessions :
        /\ p # q /\ Done(p) /\ Done(q)
        /\ req[p].op = "mark" /\ req[q] = req[p]
        /\ hist[p].pre /\ hist[q].pre
        /\ result[p].kind = "ok"
        /\ result[q].kind = "DuplicateAttendanceException"
        /\ \E a \in attendance : a.id = hist[p].wrote

\* C3: in every committed state every attendance record references an
\* employee that is committed
C3_NoOrphan ==
    \A a \in attendance : \E e \in employees : e.id = a.employee_id

\* a mark found its employee, the employee's deletion committed, and the
\* mark's INSERT was refused
C3_Witness ==
    \E s \in Sessions :
        /\ Done(s) /\ req[s].op = "mark" /\ hist[s].pre
        /\ req[s].id \in deleted
        /\ hist[s].wrote = 0
        /\ result[s].kind = "DuplicateAttendanceException"

\* C4: when two creates of the same employee_id and email overlap, no
\* employee with either existing when they begin and no one else writing,
\* exactly one returns the employee and the other raises
\* DuplicateEmployeeException
C4_OneCreateWins ==
    \A p, q \in Sessions :
        ( /\ p # q /\ Done(p) /\ Done(q)
          /\ req[p].op = "create" /\ req[q].op = "create"
          /\ req[p].employee_id = req[q].employee_id
          /\ req[p].email = req[q].email
          /\ hist[p].pre /\ hist[q].pre
          /\ Concurrent(p, q) /\ NoThirdWriter(p, q) )
        => \/ /\ result[p].kind = "ok"
              /\ result[q].kind = "DuplicateEmployeeException"
           \/ /\ result[q].kind = "ok"
              /\ result[p].kind = "DuplicateEmployeeException"

\* both creates passed both pre-checks, and the loser was refused at COMMIT
C4_Witness ==
    \E p, q \in Sessions :
        /\ p # q /\ Done(p) /\ Done(q)
        /\ req[p].op = "create" /\ req[q] = req[p]
        /\ hist[p].pre /\ hist[q].pre
        /\ result[p].kind = "ok"
        /\ result[q].kind = "DuplicateEmployeeException"
        /\ hist[q].would # "none"
        /\ \E e \in employees : e.id = result[p].id /\ e.employee_id = req[p].employee_id

\* C5: when two marks of the same employee and date overlap, the
\* employee existing and no such record existing when they begin and no one
\* else writing, exactly one returns the record and the other raises
\* DuplicateAttendanceException
C5_OneMarkWins ==
    \A p, q \in Sessions :
        ( /\ p # q /\ Done(p) /\ Done(q)
          /\ req[p].op = "mark" /\ req[q].op = "mark"
          /\ req[p].id = req[q].id
          /\ req[p].date = req[q].date
          /\ hist[p].pre /\ hist[q].pre
          /\ Concurrent(p, q) /\ NoThirdWriter(p, q) )
        => \/ /\ result[p].kind = "ok"
              /\ result[q].kind = "DuplicateAttendanceException"
           \/ /\ result[q].kind = "ok"
              /\ result[p].kind = "DuplicateAttendanceException"

\* both marks passed the duplicate check with different statuses, and the
\* record committed is the winner's
C5_Witness ==
    \E p, q \in Sessions :
        /\ p # q /\ Done(p) /\ Done(q)
        /\ req[p].op = "mark" /\ req[q].op = "mark"
        /\ req[p].id = req[q].id /\ req[p].date = req[q].date
        /\ req[p].status # req[q].status
        /\ hist[p].pre /\ hist[q].pre
        /\ result[p].kind = "ok"
        /\ result[q].kind = "DuplicateAttendanceException"
        /\ \E a \in attendance : a.id = result[p].id /\ a.status = req[p].status

\* the outcome r is an exception
IsError(r) == r.kind \notin {"ok", "none"}

\* session s takes its last step of a call begun earlier
Finishes(s) == pc[s] # "idle" /\ pc'[s] = "idle"

\* the step writes nothing
StoreUnchanged == employees' = employees /\ attendance' = attendance

C7_DeleteAtomic ==
    [][ /\ \A e \in employees :
              \/ /\ \E f \in employees' : f.id = e.id
                 /\ \A a \in attendance : a.employee_id = e.id => a \in attendance'
              \/ /\ \A f \in employees' : f.id # e.id
                 /\ \A a \in attendance' : a.employee_id # e.id
        /\ \A s \in Sessions :
              ( /\ req'[s].op = "delete" /\ pc'[s] = "idle" /\ IsError(result'[s])
                /\ (pc[s] # "idle" \/ ops' # ops) )
              => StoreUnchanged
      ]_vars

\* a delete has removed, on one step, an employee and its two records
C7_Witness ==
    \E s \in Sessions :
        /\ Done(s) /\ req[s].op = "delete"
        /\ result[s].kind = "ok" /\ result[s].n >= 2
        /\ req[s].id \in deleted
        /\ \A e \in employees : e.id # req[s].id
        /\ \A a \in attendance : a.employee_id # req[s].id

\* C8: once a delete of an id has committed, no employee and no attendance
\* record of that id is in the store, and a listing by employee or a summary
\* for that id begun afterwards raises EmployeeNotFoundException
C8_DeletedGone ==
    /\ \A id \in deleted :
          /\ \A e \in employees : e.id # id
          /\ \A a \in attendance : a.employee_id # id
    /\ \A s \in Sessions :
          (req[s].op \in {"by_employee", "summary"} /\ hist[s].pre) =>
             /\ pc[s] = "idle"
             /\ result[s].kind = "EmployeeNotFoundException"
             /\ result[s].id = req[s].id

\* a delete has removed an employee and its records, and a summary for the
\* id begun afterwards has raised
C8_Witness ==
    \E s, t \in Sessions :
        /\ Done(s) /\ req[s].op = "delete"
        /\ result[s].kind = "ok" /\ result[s].n >= 1
        /\ Done(t) /\ req[t].op = "summary" /\ req[t].id = req[s].id
        /\ hist[t].pre
        /\ result[t].kind = "EmployeeNotFoundException"

\* an employee of emps has the employee_id c
CodeTaken(emps, c) == \E e \in emps : e.employee_id = c

\* an employee of emps has the email m, compared without regard to case
EmailTaken(emps, m) == \E e \in emps : Lower(e.email) = Lower(m)

\* C9: a create goes past a duplicate check only if no committed employee
\* has the employee_id, respectively the email; it raises
\* DuplicateEmployeeException, the store unchanged, on every statement that
\* meets one; otherwise its COMMIT adds exactly one employee, with the
\* requested identity and an id never used before, which it returns
C9_CreateOutcome ==
    [][ \A s \in Sessions :
          /\ (pc[s] = "idle" /\ pc'[s] = "create_check_email") =>
                ~CodeTaken(employees, req'[s].employee_id)
          /\ ( /\ pc[s] = "idle" /\ pc'[s] = "idle" /\ ops' # ops
               /\ req'[s].op = "create"
               /\ result'[s].kind = "DuplicateEmployeeException"
               /\ (req'[s] # req[s] \/ result'[s] # result[s]) ) =>
                /\ CodeTaken(employees, req'[s].employee_id)
                /\ StoreUnchanged
          /\ (pc[s] = "create_check_email" /\ pc'[s] # pc[s]) =>
                IF EmailTaken(employees, req[s].email)
                THEN /\ pc'[s] = "idle"
                     /\ result'[s].kind = "DuplicateEmployeeException"
                     /\ StoreUnchanged
                ELSE pc'[s] = "create_commit" /\ StoreUnchanged
          /\ (pc[s] = "create_commit" /\ pc'[s] # pc[s]) =>
                IF \/ CodeTaken(employees, req[s].employee_id)
                   \/ EmailTaken(employees, req[s].email)
                THEN /\ pc'[s] = "idle"
                     /\ result'[s].kind = "DuplicateEmployeeException"
                     /\ StoreUnchanged
                ELSE /\ pc'[s] = "create_refresh"
                     /\ \E row \in employees' :
                           /\ row \notin employees
                           /\ employees' = employees \cup {row}
                           /\ row.employee_id = req[s].employee_id
                           /\ row.email = Lower(req[s].email)
                           /\ row.id > emp_seq
                           /\ row.id \notin deleted
                           /\ \A e \in employees : e.id # row.id
                           /\ hist'[s].wrote = row.id
                     /\ attendance' = attendance
          /\ (pc[s] = "create_refresh" /\ pc'[s] = "idle"
                 /\ result'[s].kind = "ok") =>
                /\ result'[s].id = hist[s].wrote
                /\ StoreUnchanged
      ]_vars

\* one create has been refused for its email at the second pre-check, the
\* employee_id being free, and another has added an employee
C9_Witness ==
    \E s, t \in Sessions :
        /\ s # t /\ Done(s) /\ Done(t)
        /\ req[s].op = "create" /\ req[t].op = "create"
        /\ result[s].kind = "DuplicateEmployeeException"
        /\ result[s].field = "email" /\ result[s].value = req[s].email
        /\ result[t].kind = "ok"
        /\ \E e \in employees :
              e.id = result[t].id /\ e.employee_id = req[t].employee_id

\* C10: a create refused by the store at its COMMIT raises
\* DuplicateEmployeeException naming the field the pre-checks would have
\* named on the same rows
C10_CommitNamesField ==
    \A s \in Sessions :
        ( /\ Done(s) /\ req[s].op = "create"
          /\ result[s].kind = "DuplicateEmployeeException"
          /\ hist[s].would # "none" )
        => result[s].field = hist[s].would

-----------------------------------------------------------------------------
(* The email of an employee, raced on by updates and a create *)

\* one create that takes the seeded employee's email once it is free
RaceCreatePayloads ==
    {[employee_id |-> E2, full_name |-> Jo, email |-> MailA, department |-> Dept]}

\* updates of the email alone: to the seeded one, to a free one
RaceUpdatePayloads ==
    {[full_name |-> None, email |-> MailA, department |-> None],
     [full_name |-> None, email |-> MailB, department |-> None]}

InitRace ==
    /\ Idle
    /\ employees = {SeedEmployee}
    /\ attendance = {SeedAttendance}
    /\ emp_seq = 1
    /\ att_seq = 1
    /\ today = MaxDay
    /\ budget = RaceOps

NextEmail == Create(RaceCreatePayloads) \/ Update(RaceUpdatePayloads)

SpecEmail == InitRace /\ [][NextEmail]_vars

\* C11: the COMMIT of update(id, email = e), the employee id committed and e
\* held by a different committed employee, raises
\* DuplicateEmployeeException and leaves the store unchanged
C11_CollisionRefused ==
    [][ \A s \in Sessions :
          ( /\ pc[s] = "update_commit" /\ pc'[s] # pc[s]
            /\ req[s].email # None
            /\ \E e \in employees : e.id = req[s].id
            /\ \E e \in employees :
                  e.id # req[s].id /\ Lower(e.email) = Lower(req[s].email) )
          => /\ pc'[s] = "idle"
             /\ result'[s].kind = "DuplicateEmployeeException"
             /\ StoreUnchanged
      ]_vars

\* C12: a mark of a date after the current date raises InvalidDateException
C12_FutureDateInvalidDate ==
    \A s \in Sessions :
        (Done(s) /\ req[s].op = "mark" /\ req[s].date > today)
        => result[s].kind = "InvalidDateException"

-----------------------------------------------------------------------------
(* The attendance ledger over the employees there are *)

\* marks, listings, summaries and deletes, from the seeded store
NextAttendance == Delete \/ Mark(MarkPayloads) \/ Read

SpecAttendance == InitSeeded /\ [][NextAttendance]_vars

\* session s takes the first step of a call
Begins(s) ==
    /\ pc[s] = "idle" /\ ops' # ops
    /\ (pc'[s] # "idle" \/ req'[s] # req[s] \/ result'[s] # result[s])

\* C13: a mark of a date not after the current date, its body valid, for an
\* employee id no committed employee has, raises EmployeeNotFoundException
\* at its first statement and writes nothing
C13_MissingEmployee ==
    [][ \A s \in Sessions :
          ( /\ Begins(s) /\ req'[s].op = "mark"
            /\ ~(pc'[s] = "idle" /\ result'[s].kind = "ValidationError")
            /\ req'[s].date <= today
            /\ \A e \in employees : e.id # req'[s].id )
          => /\ pc'[s] = "idle"
             /\ result'[s].kind = "EmployeeNotFoundException"
             /\ result'[s].id = req'[s].id
             /\ StoreUnchanged
      ]_vars

\* an employee has been deleted with its records, and a mark for its id has
\* raised EmployeeNotFoundException
C13_Witness ==
    \E s, t \in Sessions :
        /\ Done(s) /\ req[s].op = "mark" /\ req[s].id \in deleted
        /\ result[s].kind = "EmployeeNotFoundException"
        /\ Done(t) /\ req[t].op = "delete" /\ result[t].kind = "ok"
        /\ \A a \in attendance : a.employee_id # req[s].id

\* a record of employee id on day d is committed
Recorded(id, d) == \E a \in attendance : a.employee_id = id /\ a.date = d

\* C14: a valid mark of an employee and a date that have a committed record
\* goes on to the duplicate check; the duplicate check, and the COMMIT, that
\* meets such a record raises DuplicateAttendanceException whatever the
\* status, and writes nothing: the record keeps its status and stays alone
C14_DuplicateRefused ==
    [][ \A s \in Sessions :
          /\ ( /\ Begins(s) /\ req'[s].op = "mark"
               /\ ~(pc'[s] = "idle" /\ result'[s].kind = "ValidationError")
               /\ Recorded(req'[s].id, req'[s].date) )
             => pc'[s] = "mark_check_duplicate" /\ StoreUnchanged
          /\ ( /\ pc[s] \in {"mark_check_duplicate", "mark_commit"}
               /\ pc'[s] # pc[s]
               /\ Recorded(req[s].id, req[s].date) )
             => /\ pc'[s] = "idle"
                /\ result'[s].kind = "DuplicateAttendanceException"
                /\ result'[s].id = req[s].id /\ result'[s].n = req[s].date
                /\ StoreUnchanged
      ]_vars

\* with no other call in flight, a mark as Absent of a day recorded as
\* Present has raised DuplicateAttendanceException, the record still Present
C14_Witness ==
    \E s \in Sessions :
        /\ Done(s) /\ req[s].op = "mark" /\ req[s].status = "Absent"
        /\ hist[s].during = {}
        /\ \A t \in Sessions : pc[t] = "idle"
        /\ result[s].kind = "DuplicateAttendanceException"
        /\ \E a \in attendance :
              /\ a.employee_id = req[s].id /\ a.date = req[s].date
              /\ a.status = "Present"

\* C15: on every step every committed attendance record stays as it is,
\* with its employee, date and status, unless the step is the COMMIT of a
\* delete of its employee, which takes the employee too
C15_RecordsImmutable ==
    [][ \A a \in attendance :
          \/ a \in attendance'
          \/ /\ \A e \in employees' : e.id # a.employee_id
             /\ \E s \in Sessions :
                   /\ pc[s] = "delete_commit" /\ pc'[s] = "idle"
                   /\ req[s].id = a.employee_id
                   /\ result'[s].kind = "ok"
      ]_vars

\* a mark has created a record, an update of its employee has committed, and
\* the record is in the store as the mark wrote it
C15_Witness ==
    \E s, t \in Sessions :
        /\ Done(s) /\ req[s].op = "mark" /\ result[s].kind = "ok"
        /\ Done(t) /\ req[t].op = "update" /\ req[t].id = req[s].id
        /\ result[t].kind = "ok" /\ hist[t].wrote = req[t].id
        /\ \E a \in attendance :
              /\ a.id = result[s].id /\ a.employee_id = req[s].id
              /\ a.date = req[s].date /\ a.status = req[s].status

-----------------------------------------------------------------------------
(* Summaries over ledgers of every shape *)

\* the seeded employee after present marks as Present and absent marks as
\* Absent, one a day
LedgerOf(present, absent) ==
    {[id |-> d, employee_id |-> 1, date |-> d,
      status |-> IF d <= present THEN "Present" ELSE "Absent"] :
        d \in 1..(present + absent)}

InitSummary ==
    /\ Idle
    /\ employees = {SeedEmployee}
    /\ emp_seq = 1
    /\ \E present, absent \in 0..MaxRecords :
          /\ present + absent <= MaxRecords
          /\ attendance = LedgerOf(present, absent)
          /\ att_seq = present + absent
    /\ today = MaxRecords
    /\ budget = SeededOps

\* a mark of the seeded employee on the next free day
SummaryMarkPayloads ==
    {[employee_id |-> 1, date |-> att_seq + 1, status |-> st] :
        st \in {PresentStr, AbsentStr}}

\* calculate_present_days alone
Summarise ==
    \/ \E s \in Sessions : \E id \in TargetIds : ReadCheckEmployee(s, "summary", id)
    \/ \E s \in Sessions : SummaryQuery(s)

NextSummary == Summarise \/ Mark(SummaryMarkPayloads)

SpecSummary == InitSummary /\ [][NextSummary]_vars

\* C16: the summary of an employee returns, of the records of the employee
\* committed when it queries them, their number as total_days, the number
\* of those Present as present_days, and the difference as absent_days,
\* which is the number of those Absent
C16_SummaryCounts ==
    [][ \A s \in Sessions :
          (pc[s] = "summary" /\ pc'[s] = "idle") =>
             LET mine == {a \in attendance : a.employee_id = req[s].id}
                 r == result'[s]
             IN  /\ r.kind = "ok" /\ r.id = req[s].id
                 /\ r.n = Cardinality(mine)
                 /\ r.present = Cardinality({a \in mine : a.status = "Present"})
                 /\ r.absent = Cardinality({a \in mine : a.status = "Absent"})
                 /\ r.absent = r.n - r.present
                 /\ r.present + r.absent = r.n
                 /\ StoreUnchanged
      ]_vars

\* a summary has counted days of both kinds
C16_Witness ==
    \E s \in Sessions :
        /\ Done(s) /\ req[s].op = "summary" /\ result[s].kind = "ok"
        /\ result[s].present >= 2 /\ result[s].absent >= 2
        /\ result[s].n = result[s].present + result[s].absent

\* C17: the attendance_percentage of a summary, in hundredths, is the
\* hundredth nearest to present_days / total_days * 100 when total_days > 0,
\* is 0 when the employee has no records, lies between 0 and 100 percent,
\* and is 90.00 for 9 days Present and 1 Absent
C17_Percentage ==
    \A s \in Sessions :
        (Done(s) /\ req[s].op = "summary" /\ result[s].kind = "ok") =>
           LET r == result[s]
               exact == 10000 * r.present
               off == IF r.percentage * r.n >= exact
                      THEN r.percentage * r.n - exact
                      ELSE exact - r.percentage * r.n
           IN  /\ r.percentage \in 0..10000
               /\ r.n = 0 => r.percentage = 0
               /\ r.n > 0 => 2 * off <= r.n
               /\ (r.present = 9 /\ r.n = 10) => r.percentage = 9000

\* the summary of a ledger of 9 days Present and 1 Absent
C17_Witness ==
    \E s \in Sessions :
        /\ Done(s) /\ req[s].op = "summary" /\ result[s].kind = "ok"
        /\ result[s].present = 9 /\ result[s].absent = 1 /\ result[s].n = 10
        /\ result[s].percentage = 9000

\* C18: every committed employee has an email that is its own lower case,
\* and an employee_id, a full_name and a department that are trimmed and not
\* blank, the full_name of two characters at least
C18_StoredNormalised ==
    \A e \in employees :
        /\ e.email = Lower(e.email) /\ e.email = Strip(e.email) /\ e.email # <<>>
        /\ e.employee_id = Strip(e.employee_id) /\ e.employee_id # <<>>
        /\ e.full_name = Strip(e.full_name) /\ Len(e.full_name) >= 2
        /\ e.department = Strip(e.department) /\ e.department # <<>>

\* C19: the COMMIT of an update of a committed employee that succeeds
\* leaves the employee its id, employee_id and created_at and every one of
\* full_name, email and department the call did not supply, leaves every
\* other employee and every attendance record as they are, and adds and
\* removes none; its refresh writes nothing
C19_UpdateFrame ==
    [][ \A s \in Sessions :
          /\ ( /\ pc[s] = "update_commit" /\ pc'[s] = "update_refresh"
               /\ \E e \in employees : e.id = req[s].id )
             => /\ \A e \in employees :
                      IF e.id = req[s].id
                      THEN \E f \in employees' :
                              /\ f.id = e.id
                              /\ f.employee_id = e.employee_id
                              /\ f.created_at = e.created_at
                              /\ \A c \in {"full_name", "email", "department"} :
                                    req[s][c] = None => f[c] = e[c]
                      ELSE e \in employees'
                /\ \A f \in employees' :
                      \/ f \in employees
                      \/ f.id = req[s].id
                /\ Cardinality(employees') = Cardinality(employees)
                /\ attendance' = attendance
          /\ (pc[s] = "update_refresh" /\ pc'[s] = "idle") => StoreUnchanged
      ]_vars

\* an update that supplied the email alone has returned, and its employee
\* has the new email and the name and department it had
C19_Witness ==
    \E s \in Sessions :
        /\ Done(s) /\ req[s].op = "update" /\ result[s].kind = "ok"
        /\ req[s].email # None /\ req[s].full_name = None
        /\ req[s].department = None
        /\ hist[s].wrote = req[s].id
        /\ \E e \in employees :
              /\ e.id = req[s].id /\ e.email = req[s].email
              /\ e.email # SeedEmployee.email
              /\ e.full_name = SeedEmployee.full_name
              /\ e.department = SeedEmployee.department
              /\ e.created_at = SeedEmployee.created_at

\* C20: the COMMIT of an update of a committed employee that succeeds sets
\* the employee's updated_at to the time of the COMMIT, also when the call
\* supplied no field or only values the employee already had
C20_UpdatedAtRefreshed ==
    [][ \A s \in Sessions :
          ( /\ pc[s] = "update_commit" /\ pc'[s] = "update_refresh"
            /\ \E e \in employees : e.id = req[s].id )
          => \E f \in employees' : f.id = req[s].id /\ f.updated_at = utcnow
      ]_vars

\* one call of each kind on the seeded employee, and one create, from the
\* seeded store, the store failing statements
FaultCreatePayloads ==
    {[employee_id |-> E2, full_name |-> Jo, email |-> MailB, department |-> Dept]}

FaultUpdatePayloads ==
    {[full_name |-> None, email |-> MailB, department |-> None]}

FaultMarkPayloads ==
    {[employee_id |-> 1, date |-> MaxDay, status |-> PresentStr]}

NextFault ==
    \/ Create(FaultCreatePayloads)
    \/ \E s \in Sessions : \E payload \in FaultUpdatePayloads :
          UpdateGet(s, 1, payload)
    \/ \E s \in Sessions : UpdateCheckEmail(s)
    \/ \E s \in Sessions : UpdateCommit(s)
    \/ \E s \in Sessions : UpdateRefresh(s)
    \/ \E s \in Sessions : DeleteGet(s, 1)
    \/ \E s \in Sessions : DeleteLoad(s)
    \/ \E s \in Sessions : DeleteCommit(s)
    \/ Mark(FaultMarkPayloads)
    \/ \E s \in Sessions : \E op \in {"by_employee", "summary"} :
          ReadCheckEmployee(s, op, 1)
    \/ \E s \in Sessions : ByEmployeeQuery(s)
    \/ \E s \in Sessions : SummaryQuery(s)
    \/ \E s \in Sessions : Fault(s)
    \/ \E s \in Sessions :
          \E op \in {"create", "update", "delete", "mark", "by_employee", "summary"} :
             FaultAtBegin(s, op, 1)

SpecFault == InitSeeded /\ [][NextFault]_vars

C22_ReadOneState ==
    [][ \A s \in Sessions :
          ( /\ pc[s] \in {"by_employee", "summary"} /\ pc'[s] = "idle"
            /\ result'[s].kind = "ok" )
          => \/ \E e \in employees : e.id = req[s].id
             \/ result'[s].n = 0 /\ hist[s].seen = 0
      ]_vars

\* the three operations that name an employee by its id, from the seeded
\* store
NextLookup == GetById \/ Update(RaceUpdatePayloads) \/ Delete

SpecLookup == InitSeeded /\ [][NextLookup]_vars

\* C23: get_by_id, update and delete raise EmployeeNotFoundException on
\* their first statement exactly when no committed employee has the id at
\* that statement, and on no later one; the step that raises it writes
\* nothing; so a delete of an id whose deletion has committed raises it
C23_NotFoundExactly ==
    [][ \A s \in Sessions :
          /\ ( /\ Begins(s)
               /\ req'[s].op \in {"get_by_id", "update", "delete"}
               /\ result'[s].kind # "ValidationError" )
             => /\ ( pc'[s] = "idle" /\
                     result'[s] = EmployeeNotFoundException(req'[s].id) )
                    <=> (\A e \in employees : e.id # req'[s].id)
                /\ req'[s].id \in deleted =>
                      result'[s].kind = "EmployeeNotFoundException"
                /\ result'[s].kind = "EmployeeNotFoundException" => StoreUnchanged
          /\ ( /\ Finishes(s)
               /\ req[s].op \in {"get_by_id", "update", "delete"} )
             => result'[s].kind # "EmployeeNotFoundException"
      ]_vars

\* one session has deleted the seeded employee, and its next delete of the
\* same id, begun after, has raised EmployeeNotFoundException
C23_Witness ==
    \E s \in Sessions :
        /\ Done(s) /\ req[s].op = "delete" /\ req[s].id = 1
        /\ result[s] = EmployeeNotFoundException(1)
        /\ 1 \in deleted /\ ops = 2
        /\ \A t \in Sessions \ {s} : req[t].op = "none"
        /\ employees = {} /\ attendance = {}

\* the roster growing from the seeded store, and its listings
NextList == Create(FaultCreatePayloads) \/ List

SpecList == InitSeeded /\ [][NextList]_vars

\* C24: a listing with offset skip and limit limit returns the employees of
\* the store in descending order of creation (of id: an employee takes its
\* id and its created_at on the one step that creates it), less the first
\* skip, at most limit of them; the count is the number of employees
C24_ListPage ==
    [][ \A s \in Sessions :
          /\ ( /\ pc'[s] = "idle" /\ result'[s] # result[s]
               /\ req'[s].op \in {"get_all_employees", "list"} )
             => result'[s].rows =
                   Ids(OffsetLimit(OrderByIdDesc(employees),
                                   req'[s].skip, req'[s].limit))
          /\ ( /\ pc'[s] = "idle" /\ result'[s] # result[s]
               /\ req'[s].op = "get_employee_count" )
             => result'[s].n = Cardinality(employees)
      ]_vars

\* two employees with a record each, the second created and marked after the
\* first, seen on the last day of the clock
SecondEmployee ==
    [id |-> 2, employee_id |-> E2, full_name |-> Jo, email |-> MailB,
     department |-> Dept, created_at |-> 0, updated_at |-> 0]

SecondAttendance == [id |-> 2, employee_id |-> 2, date |-> 1, status |-> "Absent"]

InitRoster ==
    /\ Idle
    /\ employees = {SeedEmployee, SecondEmployee}
    /\ attendance = {SeedAttendance, SecondAttendance}
    /\ emp_seq = 2
    /\ att_seq = 2
    /\ today = MaxDay
    /\ budget = SeededOps

\* the record with the id
RecordById(att, id) == CHOOSE a \in att : a.id = id

\* the rows rs hold exactly the records of the set recs, each once, the
\* later dates first
ExactlyByDateDesc(rs, recs, att) ==
    /\ {rs[i] : i \in DOMAIN rs} = {a.id : a \in recs}
    /\ Len(rs) = Cardinality(recs)
    /\ \A i, j \in DOMAIN rs :
          i < j => RecordById(att, rs[i]).date >= RecordById(att, rs[j]).date


\* the ledger's marks and reads over the two employees
NextRecords == Mark(WritesMarkPayloads) \/ Read

SpecRecords == InitRoster /\ [][NextRecords]_vars

\* C25: by_employee raises EmployeeNotFoundException on its first statement
\* exactly when no committed employee has the id, and else returns, from the
\* state its query reads, exactly the records whose employee_id is the id,
\* each once, the later dates first
C25_ByEmployee ==
    [][ \A s \in Sessions :
          /\ (Begins(s) /\ req'[s].op = "by_employee")
             => ( ( pc'[s] = "idle" /\
                    result'[s] = EmployeeNotFoundException(req'[s].id) )
                  <=> (\A e \in employees : e.id # req'[s].id) )
          /\ (pc[s] = "by_employee" /\ pc'[s] = "idle")
             => /\ result'[s].kind = "ok"
                /\ ExactlyByDateDesc(result'[s].rows,
                                     {a \in attendance : a.employee_id = req[s].id},
                                     attendance)
      ]_vars

\* by_employee has returned the two records of the first employee, the one
\* of the second day before the one of the first, and has left out the
\* record of the second employee
C25_Witness ==
    \E s \in Sessions :
        /\ Done(s) /\ req[s].op = "by_employee" /\ req[s].id = 1
        /\ result[s].kind = "ok" /\ Len(result[s].rows) = 2
        /\ RecordById(attendance, result[s].rows[1]).date = 2
        /\ RecordById(attendance, result[s].rows[2]).date = 1
        /\ SecondAttendance \in attendance

\* the ledger's marks and its queries by date over the two employees
NextRanges == Mark(WritesMarkPayloads) \/ ByDate

SpecRanges == InitRoster /\ [][NextRanges]_vars

\* C26: by_date_range returns exactly the records of the dates from
\* start_date to end_date, those of the employee alone when an employee is
\* passed, each once, the later dates first; when start_date is after
\* end_date it returns no record and raises nothing
C26_ByDateRange ==
    [][ \A s \in Sessions :
          (Begins(s) /\ req'[s].op = "by_date_range")
          => /\ pc'[s] = "idle" /\ result'[s].kind = "ok"
             /\ ExactlyByDateDesc(
                   result'[s].rows,
                   {a \in attendance :
                       /\ req'[s].start_date <= a.date
                       /\ a.date <= req'[s].end_date
                       /\ req'[s].employee # {} =>
                             a.employee_id \in req'[s].employee},
                   attendance)
             /\ req'[s].start_date > req'[s].end_date => result'[s].rows = <<>>
      ]_vars

\* marks of the seeded employee whose status is spelled in another case or
\* between blanks, or is no status at all
StatusMarkPayloads ==
    {[employee_id |-> 1, date |-> d, status |-> st] :
        d \in Days,
        st \in {<<"p", "r", "e", "s", "e", "n", "t">>,
                <<" ", "A", "B", "S", "E", "N", "T", " ">>,
                <<"a", "b", "s", "e", "n", "T">>,
                <<"L", "a", "t", "e">>,
                <<"P", "r", "e", " ", "s", "e", "n", "t">>,
                <<" ">>}}

NextStatus == Mark(StatusMarkPayloads) \/ Delete

SpecStatus == InitSeeded /\ [][NextStatus]_vars

\* C27: the status of every stored attendance record is "Present" or
\* "Absent"; a mark is in the service only with one of the two as its
\* status, whatever the case and the blanks of the status sent; and a mark
\* whose body did not validate has written nothing
C27_StatusCanonical ==
    /\ \A a \in attendance : a.status \in {"Present", "Absent"}
    /\ \A s \in Sessions :
          /\ (req[s].op = "mark" /\ pc[s] # "idle")
             => req[s].status \in {"Present", "Absent"}
          /\ (req[s].op = "mark" /\ result[s].kind = "ValidationError"
              /\ pc[s] = "idle")
             => hist[s].wrote = 0 /\ req[s].status = "none"

\* a mark sent as " ABSENT " or "absenT" is stored as "Absent", and a mark
\* of another status has been rejected
C27_Witness ==
    /\ \E a \in attendance : a.id = 2 /\ a.date = 2 /\ a.status = "Absent"
    /\ \E s \in Sessions :
          /\ Done(s) /\ req[s].op = "mark"
          /\ result[s].kind = "ValidationError"

\* every operation of the ledger over the two employees, and the deletes
\* of the registry
NextBooks ==
    \/ Mark(FaultMarkPayloads)
    \/ \E s \in Sessions : \E op \in {"by_employee", "summary"} :
          ReadCheckEmployee(s, op, 1)
    \/ \E s \in Sessions : ByEmployeeQuery(s)
    \/ \E s \in Sessions : SummaryQuery(s)
    \/ \E s \in Sessions : \E end_date \in Days : \E employee_id \in Optional({1}) :
          get_attendance_by_date_range(s, 1, end_date, employee_id)
    \/ \E s \in Sessions : get_attendance_by_date(s, 1)
    \/ \E s \in Sessions : DeleteGet(s, 1)
    \/ \E s \in Sessions : DeleteLoad(s)
    \/ \E s \in Sessions : DeleteCommit(s)

SpecBooks == InitRoster /\ [][NextBooks]_vars

\* the operations of AttendanceService
LedgerOps == {"mark", "by_employee", "summary", "by_date", "by_date_range"}

\* session s takes a step of a call of the ledger
LedgerStep(s) ==
    \/ Begins(s) /\ req'[s].op \in LedgerOps
    \/ /\ pc[s] # "idle" /\ req[s].op \in LedgerOps
       /\ <<pc[s], result[s], loaded[s]>>' # <<pc[s], result[s], loaded[s]>>

\* C28: no step of mark, by_employee, by_date, by_date_range or summary,
\* of a call that returns or of one that raises, adds, removes or changes
\* an employee: every employee keeps every column, updated_at included
C28_LedgerLeavesEmployees ==
    [][ (\E s \in Sessions : LedgerStep(s)) => employees' = employees ]_vars

\* a mark of the first employee has committed and returned, a read of the
\* ledger has ended, and the employees are as seeded
C28_Witness ==
    /\ \E s \in Sessions :
          /\ Done(s) /\ req[s].op = "mark" /\ result[s].kind = "ok"
          /\ hist[s].wrote # 0
    /\ \E s \in Sessions :
          /\ Done(s) /\ req[s].op \in LedgerOps \ {"mark"}
    /\ employees = {SeedEmployee, SecondEmployee}
    /\ Cardinality(attendance) = 3

\* one employee without a record, on the last day of the clock
InitLive ==
    /\ Idle
    /\ employees = {SeedEmployee}
    /\ attendance = {}
    /\ emp_seq = 1
    /\ att_seq = 0
    /\ today = MaxDay
    /\ budget = RaceOps

\* the first statements of the four writers, on the one employee
BeginLive(s) ==
    \/ \E payload \in FaultCreatePayloads : CreateCheckEmployeeId(s, payload)
    \/ \E payload \in FaultUpdatePayloads : UpdateGet(s, 1, payload)
    \/ DeleteGet(s, 1)
    \/ \E payload \in FaultMarkPayloads : MarkCheckEmployee(s, payload)

\* a step of the call session s is in: a query, a lock of its flush, the
\* COMMIT once the flush has its locks, a refresh, or the abort of its
\* transaction by the store
StepLive(s) ==
    \/ CreateCheckEmail(s)
    \/ UpdateCheckEmail(s)
    \/ DeleteLoad(s)
    \/ MarkCheckDuplicate(s)
    \/ Acquire(s)
    \/ Ready(s) /\ CreateCommit(s)
    \/ Ready(s) /\ UpdateCommit(s)
    \/ Ready(s) /\ DeleteCommit(s)
    \/ Ready(s) /\ MarkCommit(s)
    \/ CreateRefresh(s)
    \/ UpdateRefresh(s)
    \/ MarkRefresh(s)
    \/ DeadlockDetected(s)

NextLive == \E s \in Sessions : BeginLive(s) \/ StepLive(s)

\* every worker thread runs on, and the store's deadlock check runs
SpecLive ==
    InitLive /\ [][NextLive]_vars /\ \A s \in Sessions : WF_vars(StepLive(s))

\* C29: every create, update, delete and mark a session is in ends, with a
\* value or with an exception, whatever the other sessions do on the same
\* code, email, employee or date
C29_Completes == \A s \in Sessions : (pc[s] # "idle") ~> (pc[s] = "idle")

\* two deletes of the employee waited for each other, the one holding the
\* record the other had not loaded, the other holding the employee: the
\* store has aborted one, and the other has deleted the employee
C29_Witness ==
    \E s, t \in Sessions :
        /\ s # t
        /\ Done(s) /\ req[s].op = "delete" /\ result[s].kind = "OperationalError"
        /\ Done(t) /\ req[t].op = "delete" /\ result[t].kind = "ok"
        /\ employees = {} /\ attendance = {}

\* C30: a mark raises DuplicateAttendanceException only on a record of its
\* employee and date that the store holds at the statement that raises; a
\* mark whose employee a delete has removed since its first statement raises
\* EmployeeNotFoundException
C30_DuplicateOnlyOnRecord ==
    [][ \A s \in Sessions :
          ( /\ req'[s].op = "mark" /\ pc'[s] = "idle" /\ result'[s] # result[s]
            /\ result'[s].kind = "DuplicateAttendanceException" )
          => /\ Recorded(req'[s].id, req'[s].date)
             /\ \E e \in employees : e.id = req'[s].id
      ]_vars

\* C31: a delete or an update of employee id that has read the employee and
\* ends after another delete of id has committed ends with
\* EmployeeNotFoundException: of two racing deletes one succeeds, and a racing
\* update ends with no other error
C31_LoserNotFound ==
    [][ \A s \in Sessions :
          ( /\ pc[s] # "idle" /\ pc'[s] = "idle"
            /\ req[s].op \in {"delete", "update"}
            /\ req[s].id \in deleted
            /\ EmployeeById(employees, req[s].id) = NoRow )
          => result'[s].kind = "EmployeeNotFoundException"
      ]_vars

-----------------------------------------------------------------------------
(* Creates raced on an empty store *)

\* two identities apart in code and email, one that shares the code of the
\* first, one that shares the email of the first in another case
HirePayloads ==
    {[employee_id |-> E1, full_name |-> Jo, email |-> MailA, department |-> Dept],
     [employee_id |-> E2, full_name |-> Jo, email |-> MailB, department |-> Dept],
     [employee_id |-> E1, full_name |-> Jo, email |-> MailB, department |-> Dept],
     [employee_id |-> E2, full_name |-> Jo,
      email |-> <<" ", "A", "@", "X", ".", "i", "o">>, department |-> Dept]}

NextHire == Create(HirePayloads)

SpecHire == Init /\ [][NextHire]_vars

\* C32: a create raises DuplicateEmployeeException only on a statement at
\* which a committed employee has its employee_id or its email, compared
\* without regard to case; the COMMIT of a create whose employee_id and email
\* no committed employee has adds the employee
C32_DuplicateOnlyOnHolder ==
    [][ \A s \in Sessions :
          /\ ( /\ Begins(s) \/ Finishes(s)
               /\ req'[s].op = "create" /\ pc'[s] = "idle"
               /\ result'[s].kind = "DuplicateEmployeeException" )
             => \/ CodeTaken(employees, req'[s].employee_id)
                \/ EmailTaken(employees, req'[s].email)
          /\ ( /\ pc[s] = "create_commit" /\ pc'[s] # pc[s]
               /\ ~CodeTaken(employees, req[s].employee_id)
               /\ ~EmailTaken(employees, req[s].email) )
             => /\ pc'[s] = "create_refresh"
                /\ \E e \in employees' \ employees :
                      /\ e.employee_id = req[s].employee_id
                      /\ e.email = Lower(req[s].email)
                /\ Cardinality(employees') = Cardinality(employees) + 1
      ]_vars

\* two creates apart in code and email raced and both returned their
\* employee, and a third, with the code of one, was refused
C32_Witness ==
    \E s, t \in Sessions :
        /\ s # t /\ Concurrent(s, t)
        /\ Done(s) /\ req[s].op = "create" /\ result[s].kind = "ok"
        /\ Done(t) /\ req[t].op = "create" /\ result[t].kind = "ok"
        /\ req[s].employee_id # req[t].employee_id
        /\ Lower(req[s].email) # Lower(req[t].email)
        /\ Cardinality(employees) = 2

\* C33: the COMMIT of an update that leaves the employee in the store leaves
\* it with the supplied value in every supplied field, also when another
\* update of the employee has committed since this one read it
C33_SuppliedFieldsHeld ==
    [][ \A s \in Sessions :
          ( /\ pc[s] = "update_commit" /\ pc'[s] = "update_refresh"
            /\ EmployeeById(employees', req[s].id) # NoRow )
          => \A c \in {"full_name", "email", "department"} :
                req[s][c] # None
                => EmployeeById(employees', req[s].id)[c] = req[s][c]
      ]_vars

-----------------------------------------------------------------------------
(* An employee created after another has been deleted *)

\* marks of the last day for the seeded employee and for the next one
RehireMarkPayloads ==
    {[employee_id |-> id, date |-> MaxDay, status |-> PresentStr] : id \in {1, 2}}

\* the seeded employee, with its record, is marked and deleted while one
\* other employee is created
NextRehire ==
    \/ Create(FaultCreatePayloads)
    \/ \E s \in Sessions : DeleteGet(s, 1)
    \/ \E s \in Sessions : DeleteLoad(s)
    \/ \E s \in Sessions : DeleteCommit(s)
    \/ Mark(RehireMarkPayloads)

SpecRehire == InitRace /\ [][NextRehire]_vars

\* C34: the COMMIT that adds an employee gives it an id no employee has or
\* has had, and no attendance record has that employee_id, whatever creates,
\* marks and deletes came before: by_employee and the summary of the new
\* employee start from no record
C34_NewEmployeeNoRecords ==
    [][ \A s \in Sessions :
          ( pc[s] = "create_commit" /\ pc'[s] = "create_refresh" )
          => \E e \in employees' \ employees :
                /\ employees' = employees \cup {e}
                /\ e.id \notin deleted
                /\ \A o \in employees : o.id # e.id
                /\ \A a \in attendance' : a.employee_id # e.id
      ]_vars

\* the seeded employee has been deleted with its records, a mark has been
\* run, and a create has returned its employee, with another id and no record
C34_Witness ==
    \E s \in Sessions :
        /\ Done(s) /\ req[s].op = "create" /\ result[s].kind = "ok"
        /\ 1 \in deleted /\ att_seq > 1
        /\ \E e \in employees : e.id = result[s].id /\ e.id # 1
        /\ attendance = {}

-----------------------------------------------------------------------------
(* An employee updated to the email it has *)

\* the seeded employee's email in upper case between blanks, and the email
\* the created employee takes
OwnEmailPayloads ==
    {[full_name |-> None, email |-> <<" ", "A", "@", "X", ".", "i", "o", " ">>,
      department |-> None],
     [full_name |-> None, email |-> MailB, department |-> None]}

NextOwnEmail == Update(OwnEmailPayloads) \/ Create(FaultCreatePayloads)

SpecOwnEmail == InitSeeded /\ [][NextOwnEmail]_vars

\* the employee the update of session s names has the email of the request,
\* compared without regard to case, and no other employee has it
OwnEmail(s) ==
    /\ \E e \in employees : e.id = req[s].id /\ Lower(e.email) = Lower(req[s].email)
    /\ \A o \in employees :
          o.id # req[s].id => Lower(o.email) # Lower(req[s].email)

\* C35: an update to the email its own employee has, in whatever case and
\* between whatever blanks, validates, passes the conflict check, commits
\* with the employee keeping that email, and returns the employee: no
\* statement of it raises DuplicateEmployeeException
C35_OwnEmailAccepted ==
    [][ \A s \in Sessions :
          /\ ( Begins(s) /\ req'[s].op = "update" /\ pc'[s] = "idle" )
             => result'[s].kind \notin {"ValidationError",
                                        "DuplicateEmployeeException"}
          /\ ( pc[s] = "update_check_email" /\ pc'[s] # pc[s] /\ OwnEmail(s) )
             => pc'[s] = "update_commit"
          /\ ( pc[s] = "update_commit" /\ pc'[s] # pc[s] /\ OwnEmail(s) )
             => /\ pc'[s] = "update_refresh"
                /\ EmployeeById(employees', req[s].id).email = req[s].email
          /\ ( pc[s] = "update_refresh" /\ pc'[s] # pc[s] /\ OwnEmail(s) )
             => /\ result'[s].kind = "ok"
                /\ result'[s].id = req[s].id
      ]_vars

\* the seeded employee has been updated to its own email, sent in upper case
\* between blanks, and the call has returned it, the email as it was
C35_Witness ==
    \E s \in Sessions :
        /\ Done(s) /\ req[s].op = "update" /\ req[s].id = 1
        /\ req[s].email = MailA
        /\ result[s].kind = "ok"
        /\ \E e \in employees : e.id = 1 /\ e.email = MailA

-----------------------------------------------------------------------------
(* The order of the checks of a mark *)

\* marks of the seeded employee and of an employee there is not, on the
\* recorded day, on the current day and on the day after it, the status valid
OrderMarkPayloads ==
    {[employee_id |-> id, date |-> d, status |-> PresentStr] :
        id \in {1, 2}, d \in {1, today, today + 1}}

NextOrder ==
    \/ \E s \in Sessions : \E payload \in OrderMarkPayloads :
          MarkCheckEmployee(s, payload)
    \/ \E s \in Sessions : MarkCheckDuplicate(s)
    \/ \E s \in Sessions : MarkCommit(s)
    \/ \E s \in Sessions : MarkRefresh(s)

SpecOrder == InitSeeded /\ [][NextOrder]_vars

\* C36: a mark of a date after the current date raises InvalidDateException,
\* whether the employee exists or not; a mark of another date for an id no
\* employee has raises EmployeeNotFoundException at its first statement; and
\* DuplicateAttendanceException is raised only by a mark of a date not after
\* the current date that has found its employee
C36_CheckOrder ==
    [][ \A s \in Sessions :
          /\ ( Begins(s) /\ req'[s].op = "mark" /\ req'[s].date > today )
             => /\ pc'[s] = "idle"
                /\ result'[s].kind = "InvalidDateException"
          /\ ( /\ Begins(s) /\ req'[s].op = "mark" /\ req'[s].date <= today
               /\ \A e \in employees : e.id # req'[s].id )
             => /\ pc'[s] = "idle"
                /\ result'[s].kind = "EmployeeNotFoundException"
          /\ ( Begins(s) /\ req'[s].op = "mark" /\ pc'[s] = "idle" )
             => result'[s].kind # "DuplicateAttendanceException"
          /\ ( Begins(s) /\ req'[s].op = "mark" /\ pc'[s] # "idle" )
             => /\ req'[s].date <= today
                /\ \E e \in employees : e.id = req'[s].id
          /\ ( /\ Finishes(s) /\ req[s].op = "mark"
               /\ result'[s].kind = "DuplicateAttendanceException" )
             => req[s].date <= today
      ]_vars

-----------------------------------------------------------------------------
(* The listing of the attendance records *)

\* the listing, with and without a date, and marks of the first employee on
\* the last day, over the two employees with a record of day 1 each
NextListing ==
    \/ \E s \in Sessions : \E skip \in 0..1 : \E limit \in 1..2 :
          \E date_filter \in Optional(Days) :
             AttendanceListFirst(s, skip, limit, date_filter)
    \/ \E s \in Sessions : AttendanceListSecond(s)
    \/ \E s \in Sessions : \E payload \in FaultMarkPayloads :
          MarkCheckEmployee(s, payload)
    \/ \E s \in Sessions : MarkCheckDuplicate(s)
    \/ \E s \in Sessions : MarkCommit(s)
    \/ \E s \in Sessions : MarkRefresh(s)

SpecListing == InitRoster /\ [][NextListing]_vars

\* the number of the records of att the filter takes: all without a date,
\* those of the date with one
Matching(att, date_filter) ==
    IF date_filter = {} THEN Cardinality(att)
    ELSE Cardinality({a \in att : a.date \in date_filter})

\* C37: the total of the attendance listing is the number of records its
\* filter takes, all of them without a date and those of the date with one,
\* in the store as the listing's first or its second statement reads it
C37_ListingTotal ==
    [][ \A s \in Sessions :
          ( Finishes(s) /\ req[s].op = "attendance_list" )
          => \/ result'[s].n = hist[s].seen
             \/ result'[s].n = Matching(attendance, req[s].date_filter)
      ]_vars

====
